---- MODULE Spec2Model ----
(***************************************************************************)
(* Verification model of the provisioning and bootstrap workflow of        *)
(* cf-saas-starter.                                                        *)
(*                                                                         *)
(*   - ensureD1Schema (src/lib/db/setup.ts:802-829): the memoized,         *)
(*     single-flight schema bootstrap, modelled at the granularity of the  *)
(*     JavaScript job queue (one action per synchronous run of code).      *)
(*   - main and its six steps (src/lib/db/setup.ts:351-734): the           *)
(*     interactive provisioning run.                                       *)
(*   - updateWranglerConfig (src/lib/db/setup.ts:480-533) on its own,      *)
(*     applied repeatedly to the file it left.                             *)
(*   - seed (src/unnamed/part_001:84-203): sequential runs of the seed     *)
(*     script against one store and one billing account.                   *)
(*   - extractAccounts and parseD1CreateResult                             *)
(*     (src/lib/db/setup.ts:94-176, 287-349): the two output parsers, each *)
(*     applied to one text drawn from a bounded set.                       *)
(***************************************************************************)
EXTENDS Integers, Sequences, FiniteSets, TLC

(***************************************************************************)
(* Bounds of the model.                                                    *)
(***************************************************************************)
MaxCalls == 3
MaxAttempts == 2
MaxAccounts == 2
MaxPatches == 2
MaxRuns == 2
MaxLines == 2

(***************************************************************************)
(* Program constants.                                                      *)
(***************************************************************************)
\* MIGRATION_STATEMENTS holds eight statements (setup.ts:736-791).
NumStatements == 8

MIGRATION_STATEMENTS == 1 .. NumStatements

CallIds == 1 .. MaxCalls
AttemptIds == 1 .. MaxAttempts

\* The values a caller may pass as `db: unknown`.
dbA == [type |-> "object", isNull |-> FALSE, prepare |-> "function", name |-> "A"]
dbB == [type |-> "object", isNull |-> FALSE, prepare |-> "function", name |-> "B"]
\* Values without a prepare function are bound to no database.
nullValue == [type |-> "object", isNull |-> TRUE, prepare |-> "undefined", name |-> "unbound"]
plainObject == [type |-> "object", isNull |-> FALSE, prepare |-> "undefined", name |-> "unbound"]

Candidates == {dbA, dbB, nullValue, plainObject}

VARIABLES
    bootstrapPromise,   \* 0 for null, else the attempt whose promise is memoized
    body,               \* attempt -> state of the async IIFE's promise
    promise,            \* attempt -> state of the memoized promise (IIFE().catch)
    cur,                \* attempt -> index of the statement last issued
    run,                \* attempt -> state of the run() promise of statement cur
    handleOf,           \* attempt -> name of the handle the IIFE closed over
    nextAttempt,        \* number of attempts started so far, plus one
    log,                \* history: the statements issued, in issue order
    nextCall,           \* number of calls made so far, plus one
    callPc,             \* call -> position of that ensureD1Schema invocation
    joined,             \* call -> attempt it awaits (0: none)
    callArg,            \* call -> name of the handle it was given
    lastSeen            \* history: bootstrap state the latest call found on entry

bvars == <<bootstrapPromise, body, promise, cur, run, handleOf, nextAttempt,
           log, nextCall, callPc, joined, callArg, lastSeen>>

\* The provisioning run (main of the setup script).
VARIABLES
    spc,            \* position of main: the prompt, command or write awaited
    steps,          \* history: the steps started, in start order
    exitCode,       \* "none" while the process runs, else its exit status
    fatalAt,        \* history: the position at which the run became fatal
    authLog,        \* history: probes and confirmation of step 1, in order
    attempt,        \* loop counter of the identity-listing loop
    listings,       \* history: outcome of each `wrangler whoami` so far
    detectedAccounts, \* null, or the list extractAccounts returned
    enteredId,      \* account id typed by the operator (<<>> if none)
    selectAnswer,   \* history: the latest answer to the selection prompt
    account,        \* the AccountInfo chosen in step 2
    desiredName,    \* name entered for a new database ("" if none)
    manualName,     \* database name entered by hand ("" if none)
    createResult,   \* outcome of `wrangler d1 create` ("none" if not run)
    database,       \* [id, name] resolved in step 3
    bindingName,    \* binding name resolved in step 3 ("" before)
    apiToken,       \* API token entered in step 3 (may be "")
    configFile,     \* wrangler.jsonc: setting -> placeholder token or value
    patchLog,       \* history: one record per return of updateWranglerConfig
    configWrites,   \* history: number of writes of wrangler.jsonc
    stripeSecretKey, \* secret key entered in step 4
    listenResult,   \* history: how `stripe listen --print-secret` settled
    webhookSecret,  \* "" until step 5 extracted one
    authSecret,     \* "" until step 6 generated one
    envFile,        \* ".env": "untouched", "written" or "partial"
    envVars,        \* the variables written to .env
    envWrites       \* history: number of completed writes of .env

svars == <<spc, steps, exitCode, fatalAt, authLog, attempt, listings, detectedAccounts,
           enteredId, selectAnswer, account, desiredName, manualName, createResult,
           database, bindingName,
           apiToken, configFile, patchLog, configWrites, stripeSecretKey,
           listenResult,
           webhookSecret,
           authSecret, envFile, envVars, envWrites>>

\* The seed script and the store it fills.
VARIABLES
    seedPc,         \* position of the seed process ("idle" between runs)
    seedLocal,      \* locals of seed(): statement index, user and team rows
    store,          \* rows of users, teams, team_members; billing products
    runInserts,     \* history: what the current run has inserted so far
    seedRuns        \* history: one record per finished run

dvars == <<seedPc, seedLocal, store, runInserts, seedRuns>>

\* The two output parsers of the setup script, applied to one text.
VARIABLES
    parsePc,        \* "off", "ready" (a text is at hand) or "done"
    parseInput,     \* the text handed to the parser
    parseOutput     \* what the parser returned

pvars == <<parsePc, parseInput, parseOutput>>

vars == <<bvars, svars, dvars, pvars>>

BootstrapInit ==
    /\ bootstrapPromise = 0
    /\ body = [a \in AttemptIds |-> "unborn"]
    /\ promise = [a \in AttemptIds |-> "unborn"]
    /\ cur = [a \in AttemptIds |-> 0]
    /\ run = [a \in AttemptIds |-> "none"]
    /\ handleOf = [a \in AttemptIds |-> "none"]
    /\ nextAttempt = 1
    /\ log = <<>>
    /\ nextCall = 1
    /\ callPc = [c \in CallIds |-> "notCalled"]
    /\ joined = [c \in CallIds |-> 0]
    /\ callArg = [c \in CallIds |-> "none"]
    /\ lastSeen = "none"

(***************************************************************************)
(* Schema bootstrap: ensureD1Schema.                                       *)
(***************************************************************************)

\* Mutant: the test for the prepare function is left out.
isD1DatabaseLike_NoPrepareCheck(candidate) ==
    /\ candidate.type = "object"
    /\ ~candidate.isNull

\* typeof candidate === "object" && candidate !== null &&
\* typeof candidate.prepare === "function"
isD1DatabaseLike(candidate) ==
    /\ candidate.type = "object"
    /\ ~candidate.isNull
    /\ candidate.prepare = "function"

\* What a call finds in the module-level variable when it is entered.
\* "failing": the memoized promise is still pending although a statement of
\* its attempt has already been rejected (the rejection handler has not run).
BootstrapState ==
    IF bootstrapPromise = 0 THEN "idle"
    ELSE IF promise[bootstrapPromise] = "fulfilled" THEN "completed"
    ELSE IF run[bootstrapPromise] = "rejected" THEN "failing"
    ELSE "inflight"

\* Mutant: a statement is issued on the handle of the latest caller instead
\* of the handle the attempt closed over.
IssueStatement_LatestCaller(a, i, h) ==
    /\ cur' = [cur EXCEPT ![a] = i]
    /\ run' = [run EXCEPT ![a] = "inflight"]
    /\ log' = Append(log, [attempt |-> a, stmt |-> i,
                           handle |-> IF nextCall > 1 /\ i > 1
                                      THEN callArg[nextCall - 1] ELSE h])

\* db.prepare(statement).run(): statement i of attempt a is issued on handle h.
IssueStatement(a, i, h) ==
    /\ cur' = [cur EXCEPT ![a] = i]
    /\ run' = [run EXCEPT ![a] = "inflight"]
    /\ log' = Append(log, [attempt |-> a, stmt |-> i, handle |-> h])

\* Mutant: a completion flag instead of the memoized promise: a new attempt
\* starts unless an earlier one has completed.
MustStartAttempt_DoneFlag ==
    \/ bootstrapPromise = 0
    \/ promise[bootstrapPromise] # "fulfilled"

\* The test `!bootstrapPromise` of line 817.
MustStartAttempt == bootstrapPromise = 0

\* Lines 817-826, taken branch: the async IIFE runs synchronously up to its
\* first await, so the first statement is issued inside the call; the promise
\* returned by .catch is stored in bootstrapPromise.
StartAttempt(c, db) ==
    /\ nextAttempt \in AttemptIds
    /\ LET a == nextAttempt IN
        /\ body' = [body EXCEPT ![a] = "running"]
        /\ promise' = [promise EXCEPT ![a] = "pending"]
        /\ handleOf' = [handleOf EXCEPT ![a] = db.name]
        /\ IssueStatement(a, 1, db.name)
        /\ bootstrapPromise' = a
        /\ nextAttempt' = a + 1
        /\ joined' = [joined EXCEPT ![c] = a]
        /\ callPc' = [callPc EXCEPT ![c] = "awaiting"]

\* Lines 817 (branch not taken) and 828: the call awaits the memoized promise.
JoinAttempt(c) ==
    /\ joined' = [joined EXCEPT ![c] = bootstrapPromise]
    /\ callPc' = [callPc EXCEPT ![c] = "awaiting"]
    /\ UNCHANGED <<bootstrapPromise, body, promise, cur, run, handleOf,
                   nextAttempt, log>>

\* Lines 813-815: the call throws (its promise rejects) before touching state.
RejectHandle(c) ==
    /\ callPc' = [callPc EXCEPT ![c] = "threwUnavailable"]
    /\ UNCHANGED <<bootstrapPromise, body, promise, cur, run, handleOf,
                   nextAttempt, log, joined>>

\* The synchronous part of one invocation ensureD1Schema(db): lines 812-828 up
\* to the await.  Calls are numbered in arrival order.
ensureD1Schema(c, db) ==
    /\ UNCHANGED <<svars, dvars, pvars>>
    /\ c = nextCall
    /\ nextCall' = c + 1
    /\ callArg' = [callArg EXCEPT ![c] = db.name]
    /\ lastSeen' = BootstrapState
    /\ IF ~isD1DatabaseLike(db) THEN RejectHandle(c)
       ELSE IF MustStartAttempt THEN StartAttempt(c, db)
       ELSE JoinAttempt(c)

\* The database settles the run() promise of the statement in flight.
RunResolve(a) ==
    /\ UNCHANGED <<svars, dvars, pvars>>
    /\ run[a] = "inflight"
    /\ run' = [run EXCEPT ![a] = "resolved"]
    /\ UNCHANGED <<bootstrapPromise, body, promise, cur, handleOf, nextAttempt,
                   log, nextCall, callPc, joined, callArg, lastSeen>>

RunReject(a) ==
    /\ UNCHANGED <<svars, dvars, pvars>>
    /\ run[a] = "inflight"
    /\ run' = [run EXCEPT ![a] = "rejected"]
    /\ UNCHANGED <<bootstrapPromise, body, promise, cur, handleOf, nextAttempt,
                   log, nextCall, callPc, joined, callArg, lastSeen>>

\* Mutant: the loop does not await run(): the next statement is issued while
\* the previous one is still in flight.
IIFEResume_NoAwait(a) ==
    /\ UNCHANGED <<svars, dvars, pvars>>
    /\ body[a] = "running"
    /\ run[a] \in {"inflight", "resolved", "rejected"}
    /\ IF run[a] = "rejected"
       THEN /\ body' = [body EXCEPT ![a] = "rejected"]
            /\ UNCHANGED <<cur, run, log>>
       ELSE IF cur[a] < NumStatements
       THEN /\ IssueStatement(a, cur[a] + 1, handleOf[a])
            /\ UNCHANGED body
       ELSE /\ run[a] = "resolved"
            /\ body' = [body EXCEPT ![a] = "fulfilled"]
            /\ run' = [run EXCEPT ![a] = "none"]
            /\ UNCHANGED <<cur, log>>
    /\ UNCHANGED <<bootstrapPromise, promise, handleOf, nextAttempt, nextCall,
                   callPc, joined, callArg, lastSeen>>

\* Lines 819-821: the IIFE resumes after `await ...run()`: it issues the next
\* statement, returns after the last one, or throws what the await threw.
IIFEResume(a) ==
    /\ UNCHANGED <<svars, dvars, pvars>>
    /\ body[a] = "running"
    /\ run[a] \in {"resolved", "rejected"}
    /\ IF run[a] = "rejected"
       THEN /\ body' = [body EXCEPT ![a] = "rejected"]
            /\ UNCHANGED <<cur, run, log>>
       ELSE IF cur[a] < NumStatements
       THEN /\ IssueStatement(a, cur[a] + 1, handleOf[a])
            /\ UNCHANGED body
       ELSE /\ body' = [body EXCEPT ![a] = "fulfilled"]
            /\ run' = [run EXCEPT ![a] = "none"]
            /\ UNCHANGED <<cur, log>>
    /\ UNCHANGED <<bootstrapPromise, promise, handleOf, nextAttempt, nextCall,
                   callPc, joined, callArg, lastSeen>>

\* Mutant: the rejection handler rethrows without clearing the memo.
CatchHandler_NoReset(a) ==
    /\ UNCHANGED <<svars, dvars, pvars>>
    /\ body[a] = "rejected"
    /\ promise[a] = "pending"
    /\ promise' = [promise EXCEPT ![a] = "rejected"]
    /\ UNCHANGED <<bootstrapPromise, body, cur, run, handleOf, nextAttempt, log,
                   nextCall, callPc, joined, callArg, lastSeen>>

\* Lines 822-825: the rejection handler clears the memo and rethrows.
CatchHandler(a) ==
    /\ UNCHANGED <<svars, dvars, pvars>>
    /\ body[a] = "rejected"
    /\ promise[a] = "pending"
    /\ bootstrapPromise' = 0
    /\ promise' = [promise EXCEPT ![a] = "rejected"]
    /\ UNCHANGED <<body, cur, run, handleOf, nextAttempt, log, nextCall, callPc,
                   joined, callArg, lastSeen>>

\* Mutant: the memo is cleared when the attempt settles either way (finally).
CatchPassThrough_Finally(a) ==
    /\ UNCHANGED <<svars, dvars, pvars>>
    /\ body[a] = "fulfilled"
    /\ promise[a] = "pending"
    /\ bootstrapPromise' = 0
    /\ promise' = [promise EXCEPT ![a] = "fulfilled"]
    /\ UNCHANGED <<body, cur, run, handleOf, nextAttempt, log, nextCall, callPc,
                   joined, callArg, lastSeen>>

\* Line 822: .catch passes a fulfilment through; the handler does not run.
CatchPassThrough(a) ==
    /\ UNCHANGED <<svars, dvars, pvars>>
    /\ body[a] = "fulfilled"
    /\ promise[a] = "pending"
    /\ promise' = [promise EXCEPT ![a] = "fulfilled"]
    /\ UNCHANGED <<bootstrapPromise, body, cur, run, handleOf, nextAttempt, log,
                   nextCall, callPc, joined, callArg, lastSeen>>

\* Mutant: a waiter swallows the attempt's failure.
AwaitOutcome_Swallow(a) == "returned"

\* The outcome `await bootstrapPromise` hands to a call that awaits attempt a.
AwaitOutcome(a) ==
    IF promise[a] = "fulfilled" THEN "returned" ELSE "threw"

\* Mutant: a waiter is resumed only by a fulfilment.
AwaitResume_OnlyFulfilled(c) ==
    /\ UNCHANGED <<svars, dvars, pvars>>
    /\ callPc[c] = "awaiting"
    /\ promise[joined[c]] = "fulfilled"
    /\ callPc' = [callPc EXCEPT ![c] = AwaitOutcome(joined[c])]
    /\ UNCHANGED <<bootstrapPromise, body, promise, cur, run, handleOf,
                   nextAttempt, log, nextCall, joined, callArg, lastSeen>>

\* Line 828: the call resumes once the promise it awaits has settled.
AwaitResume(c) ==
    /\ UNCHANGED <<svars, dvars, pvars>>
    /\ callPc[c] = "awaiting"
    /\ promise[joined[c]] \in {"fulfilled", "rejected"}
    /\ callPc' = [callPc EXCEPT ![c] = AwaitOutcome(joined[c])]
    /\ UNCHANGED <<bootstrapPromise, body, promise, cur, run, handleOf,
                   nextAttempt, log, nextCall, joined, callArg, lastSeen>>

BootstrapNext ==
    \/ \E c \in CallIds, db \in Candidates : ensureD1Schema(c, db)
    \/ \E a \in AttemptIds : RunResolve(a)
    \/ \E a \in AttemptIds : RunReject(a)
    \/ \E a \in AttemptIds : IIFEResume(a)
    \/ \E a \in AttemptIds : CatchHandler(a)
    \/ \E a \in AttemptIds : CatchPassThrough(a)
    \/ \E c \in CallIds : AwaitResume(c)

(***************************************************************************)
(* The setup script: text helpers.  Identifiers typed by the operator are  *)
(* sequences of one-character strings; free text (names, labels, secrets)  *)
(* is kept as opaque strings.                                              *)
(***************************************************************************)
Rep(ch, n) == [i \in 1 .. n |-> ch]

Digits == <<"0", "1", "2", "3", "4", "5", "6", "7", "8", "9">>

DigitChars == {Digits[i] : i \in 1 .. Len(Digits)}

DigitValue(ch) == (CHOOSE i \in 1 .. Len(Digits) : Digits[i] = ch) - 1

HexChars == DigitChars \cup {"a", "b", "c", "d", "e", "f",
                             "A", "B", "C", "D", "E", "F"}

\* /^[a-f0-9]{32}$/i.test(s)
IsHex32(s) == Len(s) = 32 /\ \A i \in 1 .. 32 : s[i] \in HexChars

\* /^[0-9a-f]{8}-[0-9a-f]{4}-[0-9a-f]{4}-[0-9a-f]{4}-[0-9a-f]{12}$/i.test(s)
IsUuid(s) ==
    /\ Len(s) = 36
    /\ \A i \in 1 .. 36 :
        IF i \in {9, 14, 19, 24} THEN s[i] = "-" ELSE s[i] \in HexChars

\* answer.toLowerCase() for the answers of a yes/no prompt.
toLowerCase(a) == IF a = "Y" THEN "y" ELSE IF a = "N" THEN "n" ELSE a

\* Number.parseInt(s, 10) of a trimmed string: the value of its longest
\* prefix of decimal digits, "NaN" when that prefix is empty.  The code only
\* compares the value with 1 and detected.length, so values above
\* MaxAccounts + 1 are represented by MaxAccounts + 1.
RECURSIVE DecimalPrefix(_, _)
DecimalPrefix(s, acc) ==
    IF s = <<>> \/ Head(s) \notin DigitChars THEN acc
    ELSE LET v == acc * 10 + DigitValue(Head(s))
         IN DecimalPrefix(Tail(s), IF v > MaxAccounts + 1 THEN MaxAccounts + 1 ELSE v)

parseInt(s) ==
    IF s = <<>> \/ Head(s) \notin DigitChars THEN [isNaN |-> TRUE, value |-> 0]
    ELSE [isNaN |-> FALSE, value |-> DecimalPrefix(s, 0)]

\* The list extractAccounts returns when it recovers n accounts: n distinct
\* 32-hex ids, the k-th labelled "acct".
DetectedId(k) == Rep("c", 31) \o <<Digits[k + 1]>>

DetectedList(n) ==
    [isNull |-> FALSE,
     list |-> [k \in 1 .. n |-> [id |-> DetectedId(k), name |-> "acct"]]]

\* let detectedAccounts: AccountInfo[] | null = null
NullAccounts == [isNull |-> TRUE, list |-> <<>>]

\* Values of variables that are not assigned yet.
NoAccount == [id |-> <<>>, name |-> "undefined"]
NoAnswer == [given |-> FALSE, text |-> <<>>]
NoDatabase == [id |-> <<>>, name |-> ""]
NoEnvVars ==
    [CLOUDFLARE_ACCOUNT_ID |-> <<>>, CLOUDFLARE_D1_DATABASE_ID |-> <<>>,
     CLOUDFLARE_D1_DATABASE_NAME |-> "", CLOUDFLARE_D1_BINDING |-> "",
     CLOUDFLARE_D1_API_TOKEN |-> "", STRIPE_SECRET_KEY |-> "",
     STRIPE_WEBHOOK_SECRET |-> "", BASE_URL |-> "", AUTH_SECRET |-> ""]

(***************************************************************************)
(* What the operator may type, and what the external tools may answer.     *)
(***************************************************************************)
YesNoAnswers == {"y", "Y", "n", ""}

hexLetterLed == Rep("a", 32)
hexDigitLed == <<"1">> \o Rep("b", 31)
hexAllDigits == Rep("9", 32)
hexTooShort == Rep("a", 31)
hexTooLong == Rep("a", 33)

AccountIdAnswers == {<<>>, hexLetterLed, hexTooShort, hexTooLong}

SelectAnswers == AccountIdAnswers \cup
    {hexDigitLed, hexAllDigits, <<"1">>, <<"2">>, <<"0">>, <<"9">>, <<"x">>}

LabelAnswers == {"", "label"}

validUuid == Rep("1", 8) \o <<"-">> \o Rep("2", 4) \o <<"-">> \o Rep("3", 4)
                \o <<"-">> \o Rep("a", 4) \o <<"-">> \o Rep("F", 12)
dashedNotUuid == Rep("-", 36)
shortNotUuid == Rep("1", 8)

DatabaseIdAnswers == {<<>>, validUuid, dashedNotUuid, shortNotUuid}

NameAnswers == {"", "mydb"}

ExistingNameAnswers == {"", "olddb"}

\* What parseD1CreateResult may return for the output of a successful
\* `wrangler d1 create`: null, or an id and a name.  Its first stage accepts
\* any non-empty id of the payload, its second any 36 characters of hex
\* digits and dashes, its third only a UUID-shaped substring; the name is
\* the one found or the fallback name, never empty.
ParseResults(fallbackName) ==
    {[found |-> FALSE, id |-> <<>>, name |-> ""]} \cup
    {[found |-> TRUE, id |-> i, name |-> n] :
        i \in {validUuid, dashedNotUuid},
        n \in {"created", fallbackName}}

Placeholders == {"binding", "database_name", "database_id"}

\* wrangler.jsonc is kept as the values of its three D1 settings.  A setting
\* of the template holds its placeholder token; names are strings and ids
\* sequences of characters.
Token(p) ==
    IF p = "binding" THEN "BINDING_NAME"
    ELSE IF p = "database_name" THEN "YOUR_DB_NAME"
    ELSE <<"YOUR_DB_ID">>

\* The value of a setting that was configured before the run.
Existing(p) == IF p = "database_id" THEN <<"existing">> ELSE "existing"

\* The contents of wrangler.jsonc in which exactly the placeholders of
\* `present` are left.
ConfigWith(present) ==
    [p \in Placeholders |-> IF p \in present THEN Token(p) ELSE Existing(p)]

\* updated.includes(<placeholder of p>)
includes(content, p) == content[p] = Token(p)

\* updateWranglerConfig has not returned yet.
NoPatch == <<>>

BindingAnswers == {"", "MY_D1"}

SecretAnswers == {"", "secret"}

\* crypto.randomBytes(32).toString('hex'): 64 hex characters.
RandomSecrets == {"hex64"}

\* Output of `stripe listen --print-secret`, as the words it consists of.
WhsecTokens == {"whsec_1", "whsec_2"}

ListenOutputs == {<<>>, <<"Ready">>, <<"whsec_">>,
                  <<"Ready", "whsec_1", "whsec_2">>, <<"whsec_2", "whsec_1">>}

\* `stripe listen --print-secret` has not been run.
NotListened == [run |-> FALSE, ok |-> FALSE, stdout |-> <<>>]

\* stdout.match(/whsec_[a-zA-Z0-9]+/): the first token, "null" when none.
RECURSIVE FirstWhsec(_)
FirstWhsec(out) ==
    IF out = <<>> THEN "null"
    ELSE IF Head(out) \in WhsecTokens THEN Head(out)
    ELSE FirstWhsec(Tail(out))

(***************************************************************************)
(* The setup script: main and its steps.                                   *)
(***************************************************************************)
accountVars == <<attempt, listings, detectedAccounts, enteredId, selectAnswer,
                 account>>
dbVars == <<desiredName, manualName, createResult, database, bindingName,
            apiToken>>
fileVars == <<configFile, patchLog, configWrites, envFile, envVars, envWrites>>
secretVars == <<stripeSecretKey, webhookSecret, authSecret>>

\* main() is called when the script loads and runs up to its first await:
\* step 1 has started and `stripe --version` is running.
SetupInit ==
    /\ spc = "s1_version"
    /\ steps = <<1>>
    /\ exitCode = "none"
    /\ fatalAt = "none"
    /\ authLog = <<>>
    /\ attempt = 0
    /\ listings = <<>>
    /\ detectedAccounts = NullAccounts
    /\ enteredId = <<>>
    /\ selectAnswer = NoAnswer
    /\ account = NoAccount
    /\ desiredName = ""
    /\ manualName = ""
    /\ createResult = "none"
    /\ database = NoDatabase
    /\ bindingName = ""
    /\ apiToken = ""
    /\ configFile \in {ConfigWith(present) : present \in SUBSET Placeholders}
    /\ patchLog = NoPatch
    /\ configWrites = 0
    /\ envWrites = 0
    /\ stripeSecretKey = ""
    /\ listenResult = NotListened
    /\ webhookSecret = ""
    /\ authSecret = ""
    /\ envFile = "untouched"
    /\ envVars = NoEnvVars

\* The setup script is not running.
SetupNotRun ==
    /\ spc = "notStarted"
    /\ steps = <<>>
    /\ exitCode = "none"
    /\ fatalAt = "none"
    /\ authLog = <<>>
    /\ attempt = 0
    /\ listings = <<>>
    /\ detectedAccounts = NullAccounts
    /\ enteredId = <<>>
    /\ selectAnswer = NoAnswer
    /\ account = NoAccount
    /\ desiredName = ""
    /\ manualName = ""
    /\ createResult = "none"
    /\ database = NoDatabase
    /\ bindingName = ""
    /\ apiToken = ""
    /\ configFile = ConfigWith(Placeholders)
    /\ patchLog = NoPatch
    /\ configWrites = 0
    /\ envWrites = 0
    /\ stripeSecretKey = ""
    /\ listenResult = NotListened
    /\ webhookSecret = ""
    /\ authSecret = ""
    /\ envFile = "untouched"
    /\ envVars = NoEnvVars

\* Mutant: the status is recorded (process.exitCode = code) but the process
\* keeps running.
ProcessExit_KeepsRunning(code) ==
    /\ spc' = spc
    /\ exitCode' = code
    /\ fatalAt' = IF code = "1" THEN spc ELSE fatalAt
    /\ UNCHANGED steps

\* process.exit(code), or the end of main.
ProcessExit(code) ==
    /\ spc' = "exited"
    /\ exitCode' = code
    /\ fatalAt' = IF code = "1" THEN spc ELSE fatalAt
    /\ UNCHANGED steps

Goto(p) ==
    /\ spc' = p
    /\ UNCHANGED <<exitCode, fatalAt, steps>>

\* main calls the function of step k, which runs up to its first await.
StartStep(k, p) ==
    /\ spc' = p
    /\ steps' = Append(steps, k)
    /\ UNCHANGED <<exitCode, fatalAt>>

\* Step 1, checkStripeCLI: `stripe --version` settles.
StripeVersionSettles(ok) ==
    /\ UNCHANGED <<bvars, dvars, pvars>>
    /\ UNCHANGED <<authLog, listenResult>>
    /\ spc = "s1_version"
    /\ IF ok THEN Goto("s1_auth") ELSE ProcessExit("1")
    /\ UNCHANGED <<accountVars, dbVars, fileVars, secretVars>>

\* `stripe config --list` settles (first probe).
StripeAuthSettles(ok) ==
    /\ UNCHANGED <<bvars, dvars, pvars>>
    /\ UNCHANGED listenResult
    /\ spc = "s1_auth"
    /\ authLog' = Append(authLog, IF ok THEN "probeOk" ELSE "probeFailed")
    /\ IF ok THEN StartStep(2, "s2_version") ELSE Goto("s1_confirm")
    /\ UNCHANGED <<accountVars, dbVars, fileVars, secretVars>>

\* Mutant: the answer to the confirmation is not looked at; the second
\* probe is run whatever the operator says.
StripeConfirmAnswer_IgnoresAnswer(answer) ==
    /\ UNCHANGED <<bvars, dvars, pvars>>
    /\ UNCHANGED listenResult
    /\ spc = "s1_confirm"
    /\ authLog' = Append(authLog, IF toLowerCase(answer) = "y" THEN "yes" ELSE "no")
    /\ Goto("s1_reauth")
    /\ UNCHANGED <<accountVars, dbVars, fileVars, secretVars>>

\* The operator answers 'Have you completed the authentication? (y/n)'.
StripeConfirmAnswer(answer) ==
    /\ UNCHANGED <<bvars, dvars, pvars>>
    /\ UNCHANGED listenResult
    /\ spc = "s1_confirm"
    /\ authLog' = Append(authLog, IF toLowerCase(answer) = "y" THEN "yes" ELSE "no")
    /\ IF toLowerCase(answer) # "y" THEN ProcessExit("1") ELSE Goto("s1_reauth")
    /\ UNCHANGED <<accountVars, dbVars, fileVars, secretVars>>

\* `stripe config --list` settles (second probe).
StripeReauthSettles(ok) ==
    /\ UNCHANGED <<bvars, dvars, pvars>>
    /\ UNCHANGED listenResult
    /\ spc = "s1_reauth"
    /\ authLog' = Append(authLog, IF ok THEN "probeOk" ELSE "probeFailed")
    /\ IF ok THEN StartStep(2, "s2_version") ELSE ProcessExit("1")
    /\ UNCHANGED <<accountVars, dbVars, fileVars, secretVars>>

\* Mutant: a failed version probe only sets the exit status
\* (process.exitCode = 1) and the function goes on to the listing loop.
WranglerVersionSettles_SetsStatusOnly(ok) ==
    /\ UNCHANGED <<bvars, dvars, pvars>>
    /\ UNCHANGED <<authLog, listenResult>>
    /\ spc = "s2_version"
    /\ spc' = "s2_whoami"
    /\ exitCode' = IF ok THEN exitCode ELSE "1"
    /\ fatalAt' = IF ok THEN fatalAt ELSE spc
    /\ UNCHANGED steps
    /\ attempt' = 0
    /\ detectedAccounts' = NullAccounts
    /\ UNCHANGED <<listings, enteredId, selectAnswer, account, dbVars, fileVars,
                   secretVars>>

\* Step 2, checkWranglerCLI: `pnpm wrangler --version` settles; on success
\* the listing loop is entered with attempt = 0.
WranglerVersionSettles(ok) ==
    /\ UNCHANGED <<bvars, dvars, pvars>>
    /\ UNCHANGED <<authLog, listenResult>>
    /\ spc = "s2_version"
    /\ IF ok THEN Goto("s2_whoami") ELSE ProcessExit("1")
    /\ attempt' = 0
    /\ detectedAccounts' = NullAccounts
    /\ UNCHANGED <<listings, enteredId, selectAnswer, account, dbVars, fileVars,
                   secretVars>>

\* Mutant: an empty list of accounts is fatal instead of leading to manual
\* entry.
AfterListingLoop_FatalOnEmpty(detected) ==
    IF detected.isNull THEN ProcessExit("1")
    ELSE IF Len(detected.list) > 0 THEN Goto("s2_select")
    ELSE ProcessExit("1")

\* Lines 473-477 and 234-285: after the loop, the null check and the entry
\* of chooseCloudflareAccount for the list `detected`.
AfterListingLoop(detected) ==
    IF detected.isNull THEN ProcessExit("1")
    ELSE IF Len(detected.list) > 0 THEN Goto("s2_select")
    ELSE Goto("s2_manualId")

\* Mutant: a failed listing without accounts is fatal on the first attempt
\* already (no confirmation, no retry).
WhoamiSettles_NoRetry(ok, n) ==
    /\ UNCHANGED <<bvars, dvars, pvars>>
    /\ UNCHANGED <<authLog, listenResult>>
    /\ spc = "s2_whoami"
    /\ listings' = Append(listings, [ok |-> ok, n |-> n])
    /\ IF ok \/ n > 0
       THEN /\ detectedAccounts' = DetectedList(n)
            /\ AfterListingLoop(DetectedList(n))
       ELSE /\ ProcessExit("1")
            /\ UNCHANGED detectedAccounts
    /\ UNCHANGED <<attempt, enteredId, selectAnswer, account, dbVars, fileVars,
                   secretVars>>

\* `pnpm wrangler whoami` settles; extractAccounts recovers n accounts from
\* its stdout (lines 424-471).
WhoamiSettles(ok, n) ==
    /\ UNCHANGED <<bvars, dvars, pvars>>
    /\ UNCHANGED <<authLog, listenResult>>
    /\ spc = "s2_whoami"
    /\ listings' = Append(listings, [ok |-> ok, n |-> n])
    /\ IF ok
       THEN /\ detectedAccounts' = DetectedList(n)
            /\ AfterListingLoop(DetectedList(n))
       ELSE IF n > 0
       THEN /\ detectedAccounts' = DetectedList(n)
            /\ AfterListingLoop(DetectedList(n))
       ELSE IF attempt = 0
       THEN /\ Goto("s2_confirm")
            /\ UNCHANGED detectedAccounts
       ELSE /\ ProcessExit("1")
            /\ UNCHANGED detectedAccounts
    /\ UNCHANGED <<attempt, enteredId, selectAnswer, account, dbVars, fileVars,
                   secretVars>>

\* The operator answers the confirmation of the listing loop; `continue`
\* increments attempt and tests attempt < 2.
WranglerConfirmAnswer(answer) ==
    /\ UNCHANGED <<bvars, dvars, pvars>>
    /\ UNCHANGED <<authLog, listenResult>>
    /\ spc = "s2_confirm"
    /\ IF toLowerCase(answer) # "y"
       THEN ProcessExit("1") /\ UNCHANGED attempt
       ELSE /\ attempt' = attempt + 1
            /\ IF attempt + 1 < 2 THEN Goto("s2_whoami")
               ELSE AfterListingLoop(detectedAccounts)
    /\ UNCHANGED <<listings, detectedAccounts, enteredId, selectAnswer, account,
                   dbVars, fileVars, secretVars>>

\* checkWranglerCLI returns the chosen account to main (line 704), its
\* locals go out of scope, and main calls setupCloudflareD1, which runs up
\* to its first prompt.
ReturnAccount(chosen) ==
    /\ account' = chosen
    /\ attempt' = 0
    /\ listings' = <<>>
    /\ detectedAccounts' = NullAccounts
    /\ enteredId' = <<>>
    /\ StartStep(3, "s3_hasExisting")

\* chooseCloudflareAccount, lines 246-275: the operator answers the
\* selection prompt.
SelectAccountAnswer(answer) ==
    /\ UNCHANGED <<bvars, dvars, pvars>>
    /\ UNCHANGED <<authLog, listenResult>>
    /\ spc = "s2_select"
    /\ selectAnswer' = [given |-> TRUE, text |-> answer]
    /\ LET index == parseInt(answer) IN
       IF answer = <<>>
       THEN ReturnAccount(detectedAccounts.list[1])
       ELSE IF ~index.isNaN /\ index.value >= 1
                  /\ index.value <= Len(detectedAccounts.list)
       THEN ReturnAccount(detectedAccounts.list[index.value])
       ELSE IF IsHex32(answer)
       THEN /\ enteredId' = answer
            /\ Goto("s2_label")
            /\ UNCHANGED <<account, attempt, listings, detectedAccounts>>
       ELSE /\ Goto("s2_select")
            /\ UNCHANGED <<attempt, listings, detectedAccounts, enteredId,
                           account>>
    /\ UNCHANGED <<dbVars, fileVars, secretVars>>

\* Lines 263-269: the label of an account id typed at the selection prompt.
OverrideLabelAnswer(label) ==
    /\ UNCHANGED <<bvars, dvars, pvars>>
    /\ UNCHANGED <<authLog, listenResult>>
    /\ spc = "s2_label"
    /\ ReturnAccount([id |-> enteredId,
                      name |-> IF label = "" THEN "undefined" ELSE label])
    /\ UNCHANGED <<selectAnswer, dbVars, fileVars, secretVars>>

\* Mutant: the id prompt accepts any non-empty answer.
ManualAccountIdAnswer_AnyNonEmpty(answer) ==
    /\ UNCHANGED <<bvars, dvars, pvars>>
    /\ UNCHANGED <<authLog, listenResult>>
    /\ spc = "s2_manualId"
    /\ IF Len(answer) > 0
       THEN enteredId' = answer /\ Goto("s2_manualLabel")
       ELSE Goto("s2_manualId") /\ UNCHANGED enteredId
    /\ UNCHANGED <<attempt, listings, detectedAccounts, selectAnswer, account,
                   dbVars, fileVars, secretVars>>

\* promptForAccountId, lines 180-194: the operator answers the id prompt.
ManualAccountIdAnswer(answer) ==
    /\ UNCHANGED <<bvars, dvars, pvars>>
    /\ UNCHANGED <<authLog, listenResult>>
    /\ spc = "s2_manualId"
    /\ IF IsHex32(answer)
       THEN enteredId' = answer /\ Goto("s2_manualLabel")
       ELSE Goto("s2_manualId") /\ UNCHANGED enteredId
    /\ UNCHANGED <<attempt, listings, detectedAccounts, selectAnswer, account,
                   dbVars, fileVars, secretVars>>

\* promptForAccountId, lines 187-188: the optional label.
ManualAccountLabelAnswer(label) ==
    /\ UNCHANGED <<bvars, dvars, pvars>>
    /\ UNCHANGED <<authLog, listenResult>>
    /\ spc = "s2_manualLabel"
    /\ ReturnAccount([id |-> enteredId,
                      name |-> IF label = "" THEN "undefined" ELSE label])
    /\ UNCHANGED <<selectAnswer, dbVars, fileVars, secretVars>>

\* Step 3, setupCloudflareD1: the operator answers 'Do you already have a
\* Cloudflare D1 database? (y/n)'.
HasExistingAnswer(answer) ==
    /\ UNCHANGED <<bvars, dvars, pvars>>
    /\ UNCHANGED <<authLog, listenResult>>
    /\ spc = "s3_hasExisting"
    /\ IF toLowerCase(answer) # "y" THEN Goto("s3_desiredName")
       ELSE Goto("s3_existingName")
    /\ UNCHANGED <<accountVars, dbVars, fileVars, secretVars>>

\* Lines 553-573: the name of the new database; a non-empty name starts
\* `pnpm wrangler d1 create`.
DesiredNameAnswer(answer) ==
    /\ UNCHANGED <<bvars, dvars, pvars>>
    /\ UNCHANGED <<authLog, listenResult>>
    /\ spc = "s3_desiredName"
    /\ IF answer # ""
       THEN desiredName' = answer /\ Goto("s3_create")
       ELSE Goto("s3_desiredName") /\ UNCHANGED desiredName
    /\ UNCHANGED <<accountVars, manualName, createResult, database, bindingName,
                   apiToken, fileVars, secretVars>>

\* Mutant: a failed or unparsable `wrangler d1 create` ends the run.
D1CreateSettles_FatalOnFailure(ok, result) ==
    /\ UNCHANGED <<bvars, dvars, pvars>>
    /\ UNCHANGED <<authLog, listenResult>>
    /\ spc = "s3_create"
    /\ IF ok /\ result.found
       THEN /\ database' = [id |-> result.id, name |-> result.name]
            /\ Goto("s3_binding")
       ELSE /\ ProcessExit("1")
            /\ UNCHANGED database
    /\ createResult' = IF ~ok THEN "failed"
                       ELSE IF ~result.found THEN "unparsed" ELSE "created"
    /\ UNCHANGED <<accountVars, desiredName, manualName, bindingName, apiToken,
                   fileVars, secretVars>>

\* Lines 569-609: `wrangler d1 create` settles; `result` is what
\* parseD1CreateResult returns for its output.
D1CreateSettles(ok, result) ==
    /\ UNCHANGED <<bvars, dvars, pvars>>
    /\ UNCHANGED <<authLog, listenResult>>
    /\ spc = "s3_create"
    /\ IF ok /\ result.found
       THEN /\ database' = [id |-> result.id, name |-> result.name]
            /\ Goto("s3_binding")
       ELSE /\ Goto("s3_existingName")
            /\ UNCHANGED database
    /\ createResult' = IF ~ok THEN "failed"
                       ELSE IF ~result.found THEN "unparsed" ELSE "created"
    /\ UNCHANGED <<accountVars, desiredName, manualName, bindingName, apiToken,
                   fileVars, secretVars>>

\* promptForExistingDatabaseDetails, lines 203-215: the database name, with
\* the desired name (if any) as the default.
ExistingNameAnswer(answer) ==
    /\ UNCHANGED <<bvars, dvars, pvars>>
    /\ UNCHANGED <<authLog, listenResult>>
    /\ spc = "s3_existingName"
    /\ LET databaseName == IF answer # "" THEN answer ELSE desiredName IN
       IF databaseName # ""
       THEN manualName' = databaseName /\ Goto("s3_existingId")
       ELSE Goto("s3_existingName") /\ UNCHANGED manualName
    /\ UNCHANGED <<accountVars, desiredName, createResult, database, bindingName,
                   apiToken, fileVars, secretVars>>

\* promptForExistingDatabaseDetails, lines 217-231: the database id.
ExistingIdAnswer(answer) ==
    /\ UNCHANGED <<bvars, dvars, pvars>>
    /\ UNCHANGED <<authLog, listenResult>>
    /\ spc = "s3_existingId"
    /\ IF IsUuid(answer)
       THEN /\ database' = [id |-> answer, name |-> manualName]
            /\ Goto("s3_binding")
       ELSE /\ Goto("s3_existingId")
            /\ UNCHANGED database
    /\ UNCHANGED <<accountVars, desiredName, manualName, createResult,
                   bindingName, apiToken, fileVars, secretVars>>

\* Lines 616-624: the binding name, "DB" by default.
BindingNameAnswer(answer) ==
    /\ UNCHANGED <<bvars, dvars, pvars>>
    /\ UNCHANGED <<authLog, listenResult>>
    /\ spc = "s3_binding"
    /\ bindingName' = IF answer = "" THEN "DB" ELSE answer
    /\ Goto("s3_token")
    /\ UNCHANGED <<accountVars, desiredName, manualName, createResult, database,
                   apiToken, fileVars, secretVars>>

\* Lines 633-645: the API token (may be empty); updateWranglerConfig is then
\* called and runs up to fs.readFile.
ApiTokenAnswer(answer) ==
    /\ UNCHANGED <<bvars, dvars, pvars>>
    /\ UNCHANGED <<authLog, listenResult>>
    /\ spc = "s3_token"
    /\ apiToken' = answer
    /\ Goto("s3_configRead")
    /\ UNCHANGED <<accountVars, desiredName, manualName, createResult, database,
                   bindingName, fileVars, secretVars>>

\* The value updateWranglerConfig puts in place of a placeholder.
ResolvedValue(p) ==
    IF p = "binding" THEN bindingName
    ELSE IF p = "database_name" THEN database.name
    ELSE database.id

\* Mutant: the three tests are chained with else, so that only the first
\* placeholder found is replaced.
PatchedConfig_FirstOnly(content) ==
    LET first == IF includes(content, "binding") THEN "binding"
                 ELSE IF includes(content, "database_name") THEN "database_name"
                 ELSE "database_id"
    IN [p \in Placeholders |->
            IF p = first /\ includes(content, p) THEN ResolvedValue(p)
            ELSE content[p]]

\* Lines 493-518: each placeholder that the content includes is replaced.
PatchedConfig(content) ==
    [p \in Placeholders |->
        IF includes(content, p) THEN ResolvedValue(p) ELSE content[p]]

\* Lines 494-518: `changed` is set when some placeholder was found.
changed(content) == \E p \in Placeholders : includes(content, p)

\* What one call of updateWranglerConfig did: the content it found and the
\* content it left, whether it called fs.writeFile, and what it printed.
PatchRecord(before, after, wrote, report) ==
    [before |-> before, after |-> after, wrote |-> wrote, report |-> report]

\* Lines 647-652 and 711: setupCloudflareD1 returns its result to main, its
\* locals go out of scope, and main calls getStripeSecretKey (step 4).
ReturnSetupResult ==
    /\ desiredName' = ""
    /\ manualName' = ""
    /\ createResult' = "none"
    /\ StartStep(4, "s4_secretKey")

\* Mutant: a failure to read wrangler.jsonc ends the run.
ConfigReadSettles_FatalOnError(ok) ==
    /\ UNCHANGED <<bvars, dvars, pvars>>
    /\ UNCHANGED <<authLog, listenResult>>
    /\ spc = "s3_configRead"
    /\ IF ok /\ changed(configFile)
       THEN /\ Goto("s3_configWrite")
            /\ UNCHANGED <<desiredName, manualName, createResult, patchLog>>
       ELSE IF ok
       THEN /\ patchLog' = Append(patchLog, PatchRecord(configFile, configFile,
                                    FALSE, "alreadyConfigured"))
            /\ ReturnSetupResult
       ELSE /\ patchLog' = Append(patchLog, PatchRecord(configFile, configFile,
                                    FALSE, "warning"))
            /\ ProcessExit("1")
            /\ UNCHANGED <<desiredName, manualName, createResult>>
    /\ UNCHANGED <<accountVars, database, bindingName, apiToken, configFile,
                   configWrites, envFile, envVars, envWrites, secretVars>>

\* updateWranglerConfig, lines 491-533: fs.readFile settles.  A failure is
\* caught and only warned about; with no placeholder found nothing is
\* written and the file is reported as already configured.  Then step 4
\* starts.
ConfigReadSettles(ok) ==
    /\ UNCHANGED <<bvars, dvars, pvars>>
    /\ UNCHANGED <<authLog, listenResult>>
    /\ spc = "s3_configRead"
    /\ IF ok /\ changed(configFile)
       THEN /\ Goto("s3_configWrite")
            /\ UNCHANGED <<desiredName, manualName, createResult, patchLog>>
       ELSE /\ patchLog' = Append(patchLog, PatchRecord(configFile, configFile,
                    FALSE, IF ok THEN "alreadyConfigured" ELSE "warning"))
            /\ ReturnSetupResult
    /\ UNCHANGED <<accountVars, database, bindingName, apiToken, configFile,
                   configWrites, envFile, envVars, envWrites, secretVars>>

\* updateWranglerConfig, lines 520-532: fs.writeFile settles; a failure is
\* caught and only warned about.  Then step 4 starts.
ConfigWriteSettles(ok) ==
    /\ UNCHANGED <<bvars, dvars, pvars>>
    /\ UNCHANGED <<authLog, listenResult>>
    /\ spc = "s3_configWrite"
    /\ IF ok
       THEN /\ configFile' = PatchedConfig(configFile)
            /\ configWrites' = configWrites + 1
            /\ patchLog' = Append(patchLog, PatchRecord(configFile,
                                PatchedConfig(configFile), TRUE, "updated"))
       ELSE /\ UNCHANGED <<configFile, configWrites>>
            /\ patchLog' = Append(patchLog, PatchRecord(configFile, configFile,
                                TRUE, "warning"))
    /\ ReturnSetupResult
    /\ UNCHANGED <<accountVars, database, bindingName, apiToken, envFile,
                   envVars, envWrites, secretVars>>

\* Step 4, getStripeSecretKey: any answer is accepted; step 5 starts.
SecretKeyAnswer(answer) ==
    /\ UNCHANGED <<bvars, dvars, pvars>>
    /\ UNCHANGED <<authLog, listenResult>>
    /\ spc = "s4_secretKey"
    /\ stripeSecretKey' = answer
    /\ StartStep(5, "s5_listen")
    /\ UNCHANGED <<accountVars, dbVars, fileVars, webhookSecret, authSecret>>

\* The last whsec_ token of an output, "null" when none.
RECURSIVE LastWhsec(_)
LastWhsec(out) ==
    IF out = <<>> THEN "null"
    ELSE IF out[Len(out)] \in WhsecTokens THEN out[Len(out)]
    ELSE LastWhsec(SubSeq(out, 1, Len(out) - 1))

\* Mutant: the last token of the output is taken instead of the first.
StripeListenSettles_LastMatch(ok, stdout) ==
    /\ UNCHANGED <<bvars, dvars, pvars>>
    /\ UNCHANGED authLog
    /\ spc = "s5_listen"
    /\ listenResult' = [run |-> TRUE, ok |-> ok, stdout |-> stdout]
    /\ IF ok /\ LastWhsec(stdout) # "null"
       THEN /\ webhookSecret' = LastWhsec(stdout)
            /\ StartStep(6, "s6_generate")
       ELSE /\ ProcessExit("1")
            /\ UNCHANGED webhookSecret
    /\ UNCHANGED <<accountVars, dbVars, fileVars, stripeSecretKey, authSecret>>

\* Mutant: the catch block of createStripeWebhook does not rethrow, so main
\* goes on without a webhook secret.
StripeListenSettles_Swallows(ok, stdout) ==
    /\ UNCHANGED <<bvars, dvars, pvars>>
    /\ UNCHANGED authLog
    /\ spc = "s5_listen"
    /\ listenResult' = [run |-> TRUE, ok |-> ok, stdout |-> stdout]
    /\ webhookSecret' = IF ok /\ FirstWhsec(stdout) # "null"
                        THEN FirstWhsec(stdout) ELSE ""
    /\ StartStep(6, "s6_generate")
    /\ UNCHANGED <<accountVars, dbVars, fileVars, stripeSecretKey, authSecret>>

\* Step 5, createStripeWebhook: `stripe listen --print-secret` settles.  A
\* failure, or an output without a token, is rethrown to main().catch, which
\* exits with status 1.  Otherwise step 6 starts.
StripeListenSettles(ok, stdout) ==
    /\ UNCHANGED <<bvars, dvars, pvars>>
    /\ UNCHANGED authLog
    /\ spc = "s5_listen"
    /\ listenResult' = [run |-> TRUE, ok |-> ok, stdout |-> stdout]
    /\ IF ok /\ FirstWhsec(stdout) # "null"
       THEN /\ webhookSecret' = FirstWhsec(stdout)
            /\ StartStep(6, "s6_generate")
       ELSE /\ ProcessExit("1")
            /\ UNCHANGED webhookSecret
    /\ UNCHANGED <<accountVars, dbVars, fileVars, stripeSecretKey, authSecret>>

\* Step 6, generateAuthSecret; writeEnvFile is then called and runs up to
\* fs.writeFile.
GenerateAuthSecret(random) ==
    /\ UNCHANGED <<bvars, dvars, pvars>>
    /\ UNCHANGED <<authLog, listenResult>>
    /\ spc = "s6_generate"
    /\ authSecret' = random
    /\ Goto("s7_writeEnv")
    /\ UNCHANGED <<accountVars, dbVars, fileVars, stripeSecretKey, webhookSecret>>

\* Lines 716-726: the variables main hands to writeEnvFile.
CollectedEnvVars ==
    [CLOUDFLARE_ACCOUNT_ID |-> account.id,
     CLOUDFLARE_D1_DATABASE_ID |-> database.id,
     CLOUDFLARE_D1_DATABASE_NAME |-> database.name,
     CLOUDFLARE_D1_BINDING |-> bindingName,
     CLOUDFLARE_D1_API_TOKEN |-> apiToken,
     STRIPE_SECRET_KEY |-> stripeSecretKey,
     STRIPE_WEBHOOK_SECRET |-> webhookSecret,
     BASE_URL |-> "http://localhost:3000",
     AUTH_SECRET |-> authSecret]

\* writeEnvFile, lines 691-699: fs.writeFile of .env settles.  On success
\* main returns and the process ends with status 0; a failure is rethrown to
\* main().catch, and may leave the file untouched or partly written.
EnvWriteSettles(ok, partial) ==
    /\ UNCHANGED <<bvars, dvars, pvars>>
    /\ UNCHANGED <<authLog, listenResult>>
    /\ spc = "s7_writeEnv"
    /\ IF ok
       THEN /\ envFile' = "written"
            /\ envVars' = CollectedEnvVars
            /\ envWrites' = envWrites + 1
            /\ ProcessExit("0")
       ELSE /\ envFile' = IF partial THEN "partial" ELSE "untouched"
            /\ UNCHANGED <<envVars, envWrites>>
            /\ ProcessExit("1")
    /\ UNCHANGED <<accountVars, dbVars, configFile, patchLog, configWrites,
                   secretVars>>

SetupNext ==
    \/ \E ok \in BOOLEAN : StripeVersionSettles(ok)
    \/ \E ok \in BOOLEAN : StripeAuthSettles(ok)
    \/ \E answer \in YesNoAnswers : StripeConfirmAnswer(answer)
    \/ \E ok \in BOOLEAN : StripeReauthSettles(ok)
    \/ \E ok \in BOOLEAN : WranglerVersionSettles(ok)
    \/ \E ok \in BOOLEAN, n \in 0 .. MaxAccounts : WhoamiSettles(ok, n)
    \/ \E answer \in YesNoAnswers : WranglerConfirmAnswer(answer)
    \/ \E answer \in SelectAnswers : SelectAccountAnswer(answer)
    \/ \E label \in LabelAnswers : OverrideLabelAnswer(label)
    \/ \E answer \in AccountIdAnswers : ManualAccountIdAnswer(answer)
    \/ \E label \in LabelAnswers : ManualAccountLabelAnswer(label)
    \/ \E answer \in YesNoAnswers : HasExistingAnswer(answer)
    \/ \E answer \in NameAnswers : DesiredNameAnswer(answer)
    \/ \E ok \in BOOLEAN, r \in ParseResults(desiredName) : D1CreateSettles(ok, r)
    \/ \E answer \in ExistingNameAnswers : ExistingNameAnswer(answer)
    \/ \E answer \in DatabaseIdAnswers : ExistingIdAnswer(answer)
    \/ \E answer \in BindingAnswers : BindingNameAnswer(answer)
    \/ \E answer \in SecretAnswers : ApiTokenAnswer(answer)
    \/ \E ok \in BOOLEAN : ConfigReadSettles(ok)
    \/ \E ok \in BOOLEAN : ConfigWriteSettles(ok)
    \/ \E answer \in SecretAnswers : SecretKeyAnswer(answer)
    \/ \E ok \in BOOLEAN, stdout \in ListenOutputs : StripeListenSettles(ok, stdout)
    \/ \E random \in RandomSecrets : GenerateAuthSecret(random)
    \/ \E ok \in BOOLEAN, partial \in BOOLEAN : EnvWriteSettles(ok, partial)

(***************************************************************************)
(* updateWranglerConfig on its own: the function is called MaxPatches      *)
(* times, with the same resolved values, on the file the call before left. *)
(***************************************************************************)
\* Binding and database names are free text: they may spell a placeholder.
ResolvedBindings == {"DB", "BINDING_NAME"}
ResolvedNames == {"mydb", "YOUR_DB_NAME"}
ResolvedIds == {validUuid, dashedNotUuid}

PatcherInit ==
    /\ spc = "patcher_idle"
    /\ steps = <<>>
    /\ exitCode = "none"
    /\ fatalAt = "none"
    /\ authLog = <<>>
    /\ attempt = 0
    /\ listings = <<>>
    /\ detectedAccounts = NullAccounts
    /\ enteredId = <<>>
    /\ selectAnswer = NoAnswer
    /\ account = NoAccount
    /\ desiredName = ""
    /\ manualName = ""
    /\ createResult = "none"
    /\ database \in [id : ResolvedIds, name : ResolvedNames]
    /\ bindingName \in ResolvedBindings
    /\ apiToken = ""
    /\ configFile \in {ConfigWith(present) : present \in SUBSET Placeholders}
    /\ patchLog = NoPatch
    /\ configWrites = 0
    /\ envWrites = 0
    /\ stripeSecretKey = ""
    /\ listenResult = NotListened
    /\ webhookSecret = ""
    /\ authSecret = ""
    /\ envFile = "untouched"
    /\ envVars = NoEnvVars

\* What a call of updateWranglerConfig leaves alone.
patcherFrame == <<steps, exitCode, fatalAt, authLog, listenResult, accountVars,
                  dbVars, envFile, envVars, envWrites, secretVars>>

\* Lines 480-492: updateWranglerConfig is called and runs up to fs.readFile.
updateWranglerConfig ==
    /\ UNCHANGED <<bvars, dvars, pvars>>
    /\ spc = "patcher_idle"
    /\ Len(patchLog) < MaxPatches
    /\ spc' = "patcher_read"
    /\ UNCHANGED <<patcherFrame, configFile, patchLog, configWrites>>

\* Lines 492-533: fs.readFile settles.
PatcherReadSettles(ok) ==
    /\ UNCHANGED <<bvars, dvars, pvars>>
    /\ spc = "patcher_read"
    /\ IF ok /\ changed(configFile)
       THEN /\ spc' = "patcher_write"
            /\ UNCHANGED patchLog
       ELSE /\ spc' = "patcher_idle"
            /\ patchLog' = Append(patchLog, PatchRecord(configFile, configFile,
                    FALSE, IF ok THEN "alreadyConfigured" ELSE "warning"))
    /\ UNCHANGED <<patcherFrame, configFile, configWrites>>

\* Lines 520-532: fs.writeFile settles.
PatcherWriteSettles(ok) ==
    /\ UNCHANGED <<bvars, dvars, pvars>>
    /\ spc = "patcher_write"
    /\ spc' = "patcher_idle"
    /\ IF ok
       THEN /\ configFile' = PatchedConfig(configFile)
            /\ configWrites' = configWrites + 1
            /\ patchLog' = Append(patchLog, PatchRecord(configFile,
                                PatchedConfig(configFile), TRUE, "updated"))
       ELSE /\ UNCHANGED <<configFile, configWrites>>
            /\ patchLog' = Append(patchLog, PatchRecord(configFile, configFile,
                                TRUE, "warning"))
    /\ UNCHANGED patcherFrame

PatcherNext ==
    \/ updateWranglerConfig
    \/ \E ok \in BOOLEAN : PatcherReadSettles(ok)
    \/ \E ok \in BOOLEAN : PatcherWriteSettles(ok)

(***************************************************************************)
(* The seed script (src/unnamed/part_001).  Each run is a process of its   *)
(* own; runs are sequential and work on the same remote store and the same *)
(* billing account.  One action per settled await.                         *)
(***************************************************************************)
DefaultEmail == "test@test.com"
DefaultTeamName == "Test Team"

NoRow == [found |-> FALSE, id |-> 0]

NoLocals == [statement |-> 0, user |-> NoRow, team |-> NoRow]

NoInserts == [users |-> 0, teams |-> 0, members |-> 0, products |-> 0]

EmptyStore ==
    [users |-> <<>>, teams |-> <<>>, members |-> <<>>, products |-> 0,
     prices |-> 0]

SeedInit ==
    /\ seedPc = "idle"
    /\ seedLocal = NoLocals
    /\ store = EmptyStore
    /\ runInserts = NoInserts
    /\ seedRuns = <<>>

\* select().from(table).where(...).limit(1): the first of the rows `hits`
\* that satisfy the condition.
SelectFirst(table, hits) ==
    IF hits # {}
    THEN [found |-> TRUE,
          id |-> table[CHOOSE i \in hits : \A j \in hits : i <= j].id]
    ELSE NoRow

\* INTEGER PRIMARY KEY AUTOINCREMENT: the id of the next row of a table.
NextId(table) == Len(table) + 1

\* The process ends: seed().catch calls process.exit(1), .finally calls
\* process.exit(0) after a run without error.  The record of the run keeps
\* why it ended ("none": seed() returned; "query": a remote call failed;
\* "noRow": a re-select found nothing; "signal": the process was killed) and
\* where.
SeedExit_FinallyWins(code, cause, inserted) ==
    /\ seedPc' = "idle"
    /\ seedLocal' = NoLocals
    /\ seedRuns' = Append(seedRuns,
            [code |-> "0", cause |-> cause, at |-> seedPc,
             statement |-> seedLocal.statement, inserted |-> inserted])

SeedExit(code, cause, inserted) ==
    /\ seedPc' = "idle"
    /\ seedLocal' = NoLocals
    /\ seedRuns' = Append(seedRuns,
            [code |-> code, cause |-> cause, at |-> seedPc,
             statement |-> seedLocal.statement, inserted |-> inserted])

SeedGoto(p) ==
    /\ seedPc' = p
    /\ UNCHANGED <<seedLocal, seedRuns>>

\* The script is started: seed() runs up to `await hashPassword(password)`.
SeedStart ==
    /\ UNCHANGED <<bvars, svars, pvars>>
    /\ seedPc = "idle"
    /\ Len(seedRuns) < MaxRuns
    /\ seedPc' = "hash"
    /\ seedLocal' = NoLocals
    /\ runInserts' = NoInserts
    /\ UNCHANGED <<store, seedRuns>>

\* Line 123: the hash is ready; the first bootstrap statement is sent.
HashSettles ==
    /\ UNCHANGED <<bvars, svars, pvars>>
    /\ seedPc = "hash"
    /\ seedPc' = "statement"
    /\ seedLocal' = [seedLocal EXCEPT !.statement = 1]
    /\ UNCHANGED <<store, runInserts, seedRuns>>

\* Lines 125-127: remoteCallback(statement, [], 'run') settles; the
\* statements are CREATE ... IF NOT EXISTS and leave the rows alone.
StatementSettles(ok) ==
    /\ UNCHANGED <<bvars, svars, pvars>>
    /\ seedPc = "statement"
    /\ IF ~ok THEN SeedExit("1", "query", runInserts)
       ELSE IF seedLocal.statement < NumStatements
       THEN /\ seedLocal' = [seedLocal EXCEPT !.statement = @ + 1]
            /\ UNCHANGED <<seedPc, seedRuns>>
       ELSE /\ seedPc' = "selectUser"
            /\ seedLocal' = [seedLocal EXCEPT !.statement = 0]
            /\ UNCHANGED seedRuns
    /\ UNCHANGED <<store, runInserts>>

IsDefaultUser(row) == row.email = DefaultEmail

IsDefaultTeam(row) == row.name = DefaultTeamName

IsMembership(row) ==
    row.teamId = seedLocal.team.id /\ row.userId = seedLocal.user.id

\* The rows that the where clauses of the three lookups select.
DefaultUsers == {i \in 1 .. Len(store.users) : IsDefaultUser(store.users[i])}

DefaultTeams == {i \in 1 .. Len(store.teams) : IsDefaultTeam(store.teams[i])}

Memberships == {i \in 1 .. Len(store.members) : IsMembership(store.members[i])}

\* Lines 129-135: the lookup of the default user settles.
SelectUserSettles(ok) ==
    /\ UNCHANGED <<bvars, svars, pvars>>
    /\ seedPc = "selectUser"
    /\ LET user == SelectFirst(store.users, DefaultUsers) IN
       IF ~ok THEN SeedExit("1", "query", runInserts)
       ELSE IF user.found
       THEN /\ seedPc' = "selectTeam"
            /\ seedLocal' = [seedLocal EXCEPT !.user = user]
            /\ UNCHANGED seedRuns
       ELSE SeedGoto("insertUser")
    /\ UNCHANGED <<store, runInserts>>

\* Lines 136-140: the insert of the default user settles.  users_email_unique
\* rejects a second row with the same email; a request that fails on the
\* way back may have been applied all the same.
InsertUserSettles(ok, applied) ==
    /\ UNCHANGED <<bvars, svars, pvars>>
    /\ seedPc = "insertUser"
    /\ ok => applied
    /\ applied => ~SelectFirst(store.users, DefaultUsers).found
    /\ LET inserted == IF applied THEN [runInserts EXCEPT !.users = @ + 1]
                       ELSE runInserts
       IN /\ runInserts' = inserted
          /\ store' = IF applied
                THEN [store EXCEPT !.users = Append(@,
                        [id |-> NextId(store.users), email |-> DefaultEmail])]
                ELSE store
          /\ IF ok THEN SeedGoto("reselectUser") ELSE SeedExit("1", "query", inserted)

\* Lines 142-151: the second lookup of the user settles; no row is fatal.
ReselectUserSettles(ok) ==
    /\ UNCHANGED <<bvars, svars, pvars>>
    /\ seedPc = "reselectUser"
    /\ LET user == SelectFirst(store.users, DefaultUsers) IN
       IF ok /\ user.found
       THEN /\ seedPc' = "selectTeam"
            /\ seedLocal' = [seedLocal EXCEPT !.user = user]
            /\ UNCHANGED seedRuns
       ELSE SeedExit("1", IF ok THEN "noRow" ELSE "query", runInserts)
    /\ UNCHANGED <<store, runInserts>>

\* Mutant: the team is inserted whether or not the lookup found one.
SelectTeamSettles_AlwaysInserts(ok) ==
    /\ UNCHANGED <<bvars, svars, pvars>>
    /\ seedPc = "selectTeam"
    /\ IF ~ok THEN SeedExit("1", "query", runInserts) ELSE SeedGoto("insertTeam")
    /\ UNCHANGED <<store, runInserts>>

\* Lines 156-162: the lookup of the default team settles.
SelectTeamSettles(ok) ==
    /\ UNCHANGED <<bvars, svars, pvars>>
    /\ seedPc = "selectTeam"
    /\ LET team == SelectFirst(store.teams, DefaultTeams) IN
       IF ~ok THEN SeedExit("1", "query", runInserts)
       ELSE IF team.found
       THEN /\ seedPc' = "selectMember"
            /\ seedLocal' = [seedLocal EXCEPT !.team = team]
            /\ UNCHANGED seedRuns
       ELSE SeedGoto("insertTeam")
    /\ UNCHANGED <<store, runInserts>>

\* Lines 163-165: the insert of the default team settles.
InsertTeamSettles(ok, applied) ==
    /\ UNCHANGED <<bvars, svars, pvars>>
    /\ seedPc = "insertTeam"
    /\ ok => applied
    /\ LET inserted == IF applied THEN [runInserts EXCEPT !.teams = @ + 1]
                       ELSE runInserts
       IN /\ runInserts' = inserted
          /\ store' = IF applied
                THEN [store EXCEPT !.teams = Append(@,
                        [id |-> NextId(store.teams), name |-> DefaultTeamName])]
                ELSE store
          /\ IF ok THEN SeedGoto("reselectTeam") ELSE SeedExit("1", "query", inserted)

\* Lines 167-176: the second lookup of the team settles; no row is fatal.
ReselectTeamSettles(ok) ==
    /\ UNCHANGED <<bvars, svars, pvars>>
    /\ seedPc = "reselectTeam"
    /\ LET team == SelectFirst(store.teams, DefaultTeams) IN
       IF ok /\ team.found
       THEN /\ seedPc' = "selectMember"
            /\ seedLocal' = [seedLocal EXCEPT !.team = team]
            /\ UNCHANGED seedRuns
       ELSE SeedExit("1", IF ok THEN "noRow" ELSE "query", runInserts)
    /\ UNCHANGED <<store, runInserts>>

\* Lines 178-184: the lookup of the membership of user and team settles;
\* with a row found createStripeProducts is called.
SelectMemberSettles_AlwaysInserts(ok) ==
    /\ UNCHANGED <<bvars, svars, pvars>>
    /\ seedPc = "selectMember"
    /\ IF ~ok THEN SeedExit("1", "query", runInserts)
       ELSE SeedGoto("insertMember")
    /\ UNCHANGED <<store, runInserts>>

SelectMemberSettles(ok) ==
    /\ UNCHANGED <<bvars, svars, pvars>>
    /\ seedPc = "selectMember"
    /\ IF ~ok THEN SeedExit("1", "query", runInserts)
       ELSE IF SelectFirst(store.members, Memberships).found
       THEN SeedGoto("product1")
       ELSE SeedGoto("insertMember")
    /\ UNCHANGED <<store, runInserts>>

\* Lines 185-192: the insert of the membership settles; createStripeProducts
\* is called.
InsertMemberSettles(ok, applied) ==
    /\ UNCHANGED <<bvars, svars, pvars>>
    /\ seedPc = "insertMember"
    /\ ok => applied
    /\ LET inserted == IF applied THEN [runInserts EXCEPT !.members = @ + 1]
                       ELSE runInserts
       IN /\ runInserts' = inserted
          /\ store' = IF applied
                THEN [store EXCEPT !.members = Append(@,
                        [id |-> NextId(store.members),
                         teamId |-> seedLocal.team.id,
                         userId |-> seedLocal.user.id])]
                ELSE store
          /\ IF ok THEN SeedGoto("product1") ELSE SeedExit("1", "query", inserted)

\* Lines 87-90 and 102-105: stripe.products.create settles.
ProductSettles(ok, applied) ==
    /\ UNCHANGED <<bvars, svars, pvars>>
    /\ seedPc \in {"product1", "product2"}
    /\ ok => applied
    /\ LET inserted == IF applied THEN [runInserts EXCEPT !.products = @ + 1]
                       ELSE runInserts
       IN /\ runInserts' = inserted
          /\ store' = IF applied THEN [store EXCEPT !.products = @ + 1]
                      ELSE store
          /\ IF ok
             THEN SeedGoto(IF seedPc = "product1" THEN "price1" ELSE "price2")
             ELSE SeedExit("1", "query", inserted)

\* Lines 92-100 and 107-117: stripe.prices.create settles; after the second
\* price seed() returns and the process exits with status 0.
PriceSettles(ok, applied) ==
    /\ UNCHANGED <<bvars, svars, pvars>>
    /\ seedPc \in {"price1", "price2"}
    /\ ok => applied
    /\ store' = IF applied THEN [store EXCEPT !.prices = @ + 1] ELSE store
    /\ UNCHANGED runInserts
    /\ IF ~ok THEN SeedExit("1", "query", runInserts)
       ELSE IF seedPc = "price1" THEN SeedGoto("product2")
       ELSE SeedExit("0", "none", runInserts)

\* The positions of createStripeProducts.
BillingStep == {"product1", "price1", "product2", "price2"}

\* The store once the request in flight at position pc has been applied.
AppliedTo(st, pc) ==
    IF pc = "insertUser"
    THEN [st EXCEPT !.users = Append(@,
            [id |-> NextId(st.users), email |-> DefaultEmail])]
    ELSE IF pc = "insertTeam"
    THEN [st EXCEPT !.teams = Append(@,
            [id |-> NextId(st.teams), name |-> DefaultTeamName])]
    ELSE IF pc = "insertMember"
    THEN [st EXCEPT !.members = Append(@,
            [id |-> NextId(st.members), teamId |-> seedLocal.team.id,
             userId |-> seedLocal.user.id])]
    ELSE IF pc \in {"product1", "product2"}
    THEN [st EXCEPT !.products = @ + 1]
    ELSE IF pc \in {"price1", "price2"}
    THEN [st EXCEPT !.prices = @ + 1]
    ELSE st

\* What the run has inserted once the request in flight at pc is applied.
CountedAt(ins, pc) ==
    IF pc = "insertUser" THEN [ins EXCEPT !.users = @ + 1]
    ELSE IF pc = "insertTeam" THEN [ins EXCEPT !.teams = @ + 1]
    ELSE IF pc = "insertMember" THEN [ins EXCEPT !.members = @ + 1]
    ELSE IF pc \in {"product1", "product2"} THEN [ins EXCEPT !.products = @ + 1]
    ELSE ins

\* The seed process is killed while it awaits (the operator interrupts it);
\* the request in flight may still be applied by the remote side.
SeedInterrupt(applied) ==
    /\ UNCHANGED <<bvars, svars, pvars>>
    /\ seedPc # "idle"
    /\ applied => AppliedTo(store, seedPc) # store
    /\ (applied /\ seedPc = "insertUser") => DefaultUsers = {}
    /\ LET inserted == IF applied THEN CountedAt(runInserts, seedPc)
                       ELSE runInserts
       IN /\ runInserts' = inserted
          /\ store' = IF applied THEN AppliedTo(store, seedPc) ELSE store
          /\ SeedExit("killed", "signal", inserted)

SeedNext ==
    \/ SeedStart
    \/ HashSettles
    \/ \E ok \in BOOLEAN : StatementSettles(ok)
    \/ \E ok \in BOOLEAN : SelectUserSettles(ok)
    \/ \E ok, applied \in BOOLEAN : InsertUserSettles(ok, applied)
    \/ \E ok \in BOOLEAN : ReselectUserSettles(ok)
    \/ \E ok \in BOOLEAN : SelectTeamSettles(ok)
    \/ \E ok, applied \in BOOLEAN : InsertTeamSettles(ok, applied)
    \/ \E ok \in BOOLEAN : ReselectTeamSettles(ok)
    \/ \E ok \in BOOLEAN : SelectMemberSettles(ok)
    \/ \E ok, applied \in BOOLEAN : InsertMemberSettles(ok, applied)
    \/ \E ok, applied \in BOOLEAN : ProductSettles(ok, applied)
    \/ \E ok, applied \in BOOLEAN : PriceSettles(ok, applied)
    \/ \E applied \in BOOLEAN : SeedInterrupt(applied)

(***************************************************************************)
(* extractAccounts (setup.ts:94-176).  A text is a structured payload, if  *)
(* it holds one, and its lines; a line is a table row, an inline           *)
(* `Name (id: ...)` or an `Account ID: ...`.  Cells, names and ids are     *)
(* sequences of one-character strings.                                     *)
(***************************************************************************)
ParsersNotRun ==
    /\ parsePc = "off"
    /\ parseInput = <<>>
    /\ parseOutput = <<>>

RECURSIVE trim(_)
\* String.prototype.trim, for texts whose only white space is the blank.
trim(s) ==
    IF s = <<>> THEN s
    ELSE IF Head(s) = " " THEN trim(Tail(s))
    ELSE IF s[Len(s)] = " " THEN trim(SubSeq(s, 1, Len(s) - 1))
    ELSE s

IsQuote(ch) == ch \in {"\"", "'"}

NotQuote(ch) == ~IsQuote(ch)

\* Lines 108-109: trimmedName.replace(/["']/g, '').trim(), <<>> standing
\* for undefined.
cleanName(name) ==
    IF trim(name) = <<>> THEN <<>> ELSE trim(SelectSeq(trim(name), NotQuote))

\* Lines 98-117: addAccount, on the entries of the map in insertion order.
addAccount(accounts, entry) ==
    IF ~entry.hasId \/ entry.id = <<>> THEN accounts
    ELSE IF ~IsHex32(trim(entry.id)) THEN accounts
    ELSE IF \E i \in 1 .. Len(accounts) : accounts[i].id = trim(entry.id)
    THEN accounts
    ELSE Append(accounts,
                [id |-> trim(entry.id), name |-> cleanName(entry.name)])

RECURSIVE addAll(_, _)
addAll(accounts, entries) ==
    IF entries = <<>> THEN accounts
    ELSE addAll(addAccount(accounts, Head(entries)), Tail(entries))

lower(ch) ==
    IF ch = "A" THEN "a" ELSE IF ch = "N" THEN "n"
    ELSE IF ch = "I" THEN "i" ELSE IF ch = "D" THEN "d" ELSE ch

\* /sub/i.test(s) for a literal, lower-case sub.
testIgnoreCase(sub, s) ==
    \E k \in 0 .. Len(s) - Len(sub) :
        \A i \in 1 .. Len(sub) : lower(s[k + i]) = sub[i]

accountNameWords ==
    <<"a", "c", "c", "o", "u", "n", "t", " ", "n", "a", "m", "e">>

accountIdWords == <<"a", "c", "c", "o", "u", "n", "t", " ", "i", "d">>

NonEmpty(cell) == cell # <<>>

\* Lines 148-151: trimmed.split(/[|]/).map(trim).filter(Boolean).
rowParts(cells) ==
    SelectSeq([i \in 1 .. Len(cells) |-> trim(cells[i])], NonEmpty)

\* Lines 141-174, one pass of the loop over the lines: the entry the line
\* hands to addAccount, if any.
\*   row:    the first two non-empty cells, unless they are the header;
\*   inline: /(.+?)\s*\(id:\s*([0-9a-f]{32})\)/i needs a character before
\*           the bracket and exactly 32 hex characters inside it;
\*   colon:  /account\s+id\s*:\s*([0-9a-f]{32})/i takes the first 32 hex
\*           characters that follow the colon.
lineEntries(line) ==
    IF line.shape = "row"
    THEN LET parts == rowParts(<<line.name, line.id>>) IN
         IF Len(parts) >= 2
            /\ ~testIgnoreCase(accountNameWords, parts[1])
            /\ ~testIgnoreCase(accountIdWords, parts[2])
         THEN <<[hasId |-> TRUE, id |-> parts[2], name |-> parts[1]]>>
         ELSE <<>>
    ELSE IF line.shape = "inline"
    THEN IF trim(line.name) # <<>> /\ IsHex32(line.id)
         THEN <<[hasId |-> TRUE, id |-> line.id, name |-> trim(line.name)]>>
         ELSE <<>>
    ELSE IF Len(line.id) >= 32 /\ IsHex32(SubSeq(line.id, 1, 32))
         THEN <<[hasId |-> TRUE, id |-> SubSeq(line.id, 1, 32), name |-> <<>>]>>
         ELSE <<>>

RECURSIVE scanLines(_, _)
scanLines(accounts, lines) ==
    IF lines = <<>> THEN accounts
    ELSE scanLines(addAll(accounts, lineEntries(Head(lines))), Tail(lines))

\* Lines 94-176.
extractAccounts(text) ==
    LET data == text.payload
        fromPayload ==
            IF data.present
            THEN addAll(<<>>, data.account \o data.accounts \o data.result)
            ELSE <<>>
    IN scanLines(fromPayload, text.lines)

\* The texts the model hands to extractAccounts.
nameAcme == <<"A", "c", "m", "e">>
nameQuoted == <<"'", "B", "'">>
headerName == <<"A", "c", "c", "o", "u", "n", "t", " ", "N", "a", "m", "e">>
headerId == <<"A", "c", "c", "o", "u", "n", "t", " ", "I", "D">>
hexPadded == <<" ">> \o hexDigitLed \o <<" ">>

LineIds == {hexLetterLed, hexDigitLed, hexTooShort, hexTooLong}

Lines ==
    {[shape |-> "row", name |-> n, id |-> i] :
        n \in {nameAcme, nameQuoted, <<>>}, i \in LineIds}
    \cup {[shape |-> "row", name |-> headerName, id |-> headerId]}
    \cup {[shape |-> "inline", name |-> n, id |-> i] :
        n \in {nameAcme, <<>>}, i \in LineIds}
    \cup {[shape |-> "colon", name |-> <<>>, id |-> i] : i \in LineIds}

Entry(id, name) == [hasId |-> TRUE, id |-> id, name |-> name]

NoEntryId == [hasId |-> FALSE, id |-> <<>>, name |-> nameAcme]

Payloads ==
    {[present |-> FALSE, account |-> <<>>, accounts |-> <<>>, result |-> <<>>],
     [present |-> TRUE, account |-> <<Entry(hexDigitLed, nameQuoted)>>,
      accounts |-> <<>>, result |-> <<>>],
     [present |-> TRUE, account |-> <<NoEntryId>>,
      accounts |-> <<Entry(hexLetterLed, <<>>), Entry(hexTooLong, nameAcme)>>,
      result |-> <<Entry(hexPadded, nameAcme)>>]}

LineLists == UNION {[1 .. n -> Lines] : n \in 0 .. MaxLines}

ExtractInit ==
    /\ parsePc = "ready"
    /\ parseInput \in [payload : Payloads, lines : LineLists]
    /\ parseOutput = <<>>

ExtractApply ==
    /\ UNCHANGED <<bvars, svars, dvars>>
    /\ parsePc = "ready"
    /\ parsePc' = "done"
    /\ parseOutput' = extractAccounts(parseInput)
    /\ UNCHANGED parseInput

ExtractNext ==
    \/ ExtractApply

(***************************************************************************)
(* parseD1CreateResult (setup.ts:287-349).  A text is a JSON object, if it *)
(* holds one, followed by prose.  The known keys of the object sit at its  *)
(* top level, under `result`, or under some other key (as in the           *)
(* configuration snippet that `wrangler d1 create` prints); the text       *)
(* spells them in the order uuid, id, database_id, databaseId.  A field    *)
(* that is absent has has = FALSE.                                         *)
(***************************************************************************)
AbsentId == [has |-> FALSE, val |-> <<>>]

AbsentName == [has |-> FALSE, val |-> ""]

Some(v) == [has |-> TRUE, val |-> v]

\* a ?? b
Coalesce(a, b) == IF a.has THEN a ELSE b

\* The payload the first stage reads, lines 303-304: data.result ?? data.
PayloadOf(json) ==
    IF json.under \in {"top", "result"} THEN json
    ELSE [json EXCEPT !.uuid = AbsentId, !.id = AbsentId,
                      !.database_id = AbsentId, !.databaseId = AbsentId,
                      !.name = AbsentName, !.database_name = AbsentName,
                      !.databaseName = AbsentName]

\* Lines 305-309.
PayloadId(json) ==
    LET payload == PayloadOf(json) IN
    Coalesce(payload.uuid, Coalesce(payload.id,
        Coalesce(payload.database_id, payload.databaseId)))

\* Lines 310-314.
PayloadName(json, fallbackName) ==
    LET payload == PayloadOf(json) IN
    Coalesce(payload.name, Coalesce(payload.database_name,
        Coalesce(payload.databaseName, Some(fallbackName))))

\* /^[0-9a-f-]{36}$/i.test(s)
IsSnippetId(s) == Len(s) = 36 /\ \A i \in 1 .. 36 : s[i] \in HexChars \cup {"-"}

\* Lines 322-324: the first match of /"database_id"\s*:\s*"([0-9a-f-]{36})"/i
\* in the text, wherever the key sits.
snippetIdMatch(text) ==
    IF text.json.present /\ text.json.database_id.has
       /\ IsSnippetId(text.json.database_id.val)
    THEN text.json.database_id ELSE AbsentId

\* Lines 326-328: the first match of /"database_name"\s*:\s*"([^"]+)"/i.
snippetNameMatch(text) ==
    IF text.json.present /\ text.json.database_name.has
       /\ text.json.database_name.val # ""
    THEN text.json.database_name ELSE AbsentName

\* Lines 335-337: the first UUID-shaped substring of the text.
uuidMatch(text) ==
    LET inJson == IF text.json.present
                  THEN SelectSeq(<<text.json.uuid, text.json.id,
                                   text.json.database_id, text.json.databaseId>>,
                                 LAMBDA f : f.has /\ IsUuid(f.val))
                  ELSE <<>>
    IN IF inJson # <<>> THEN Head(inJson)
       ELSE IF text.prose.uuid.has /\ IsUuid(text.prose.uuid.val)
       THEN text.prose.uuid ELSE AbsentId

\* Lines 339-341: the name after `DB ` or `database ` in the prose.
nameMatch(text) == text.prose.phrase

NullResult == [found |-> FALSE, id |-> <<>>, name |-> ""]

\* Lines 287-349.
parseD1CreateResult(text, fallbackName) ==
    LET id == PayloadId(text.json)
        name == PayloadName(text.json, fallbackName)
    IN IF text.json.present /\ id.has /\ id.val # <<>> /\ name.val # ""
       THEN [found |-> TRUE, id |-> id.val, name |-> name.val]
       ELSE IF snippetIdMatch(text).has
       THEN [found |-> TRUE, id |-> snippetIdMatch(text).val,
             name |-> Coalesce(snippetNameMatch(text), Some(fallbackName)).val]
       ELSE IF uuidMatch(text).has
       THEN [found |-> TRUE, id |-> uuidMatch(text).val,
             name |-> Coalesce(nameMatch(text), Some(fallbackName)).val]
       ELSE NullResult

\* The texts the model hands to parseD1CreateResult.
UuidOf(ch) ==
    Rep(ch, 8) \o <<"-">> \o Rep(ch, 4) \o <<"-">> \o Rep(ch, 4)
        \o <<"-">> \o Rep(ch, 4) \o <<"-">> \o Rep(ch, 12)

shortId == <<"a", "b", "c">>

NoJson ==
    [present |-> FALSE, under |-> "top", uuid |-> AbsentId, id |-> AbsentId,
     database_id |-> AbsentId, databaseId |-> AbsentId, name |-> AbsentName,
     database_name |-> AbsentName, databaseName |-> AbsentName]

JsonTexts ==
    {NoJson} \cup
    [present : {TRUE}, under : {"top", "result", "other"},
     uuid : {AbsentId, Some(<<>>), Some(shortId), Some(UuidOf("a"))},
     id : {AbsentId, Some(UuidOf("b"))},
     database_id : {AbsentId, Some(dashedNotUuid), Some(UuidOf("c"))},
     databaseId : {AbsentId},
     name : {AbsentName, Some(""), Some("created")},
     database_name : {AbsentName, Some("snippet")},
     databaseName : {AbsentName}]

ProseTexts ==
    [uuid : {AbsentId, Some(UuidOf("d"))},
     phrase : {AbsentName, Some("phrase")}]

ParseCreateInit ==
    /\ parsePc = "ready"
    /\ parseInput \in [json : JsonTexts, prose : ProseTexts,
                       fallbackName : {"mydb"}]
    /\ parseOutput = NullResult

ParseCreateApply ==
    /\ UNCHANGED <<bvars, svars, dvars>>
    /\ parsePc = "ready"
    /\ parsePc' = "done"
    /\ parseOutput' = parseD1CreateResult(parseInput, parseInput.fallbackName)
    /\ UNCHANGED parseInput

ParseCreateNext ==
    \/ ParseCreateApply

(***************************************************************************)
(* Specifications.  The bootstrap runs inside the serving process, the     *)
(* setup script is a command-line process of its own.                      *)
(***************************************************************************)
InitBootstrap == BootstrapInit /\ SetupNotRun /\ SeedInit /\ ParsersNotRun

SpecBootstrap == InitBootstrap /\ [][BootstrapNext]_vars

InitSetup == BootstrapInit /\ SetupInit /\ SeedInit /\ ParsersNotRun

\* Every run() that was issued settles (the premise the database gives), and
\* the job queue runs every continuation that is ready: the IIFE after its
\* await, the .catch reaction, and the callers after theirs.
BootstrapFairness ==
    /\ \A a \in AttemptIds : WF_vars(RunResolve(a) \/ RunReject(a))
    /\ \A a \in AttemptIds : WF_vars(IIFEResume(a))
    /\ \A a \in AttemptIds : WF_vars(CatchHandler(a))
    /\ \A a \in AttemptIds : WF_vars(CatchPassThrough(a))
    /\ \A c \in CallIds : WF_vars(AwaitResume(c))

SpecBootstrapLive == InitBootstrap /\ [][BootstrapNext]_vars /\ BootstrapFairness

SpecSetup == InitSetup /\ [][SetupNext]_vars

InitPatcher == BootstrapInit /\ PatcherInit /\ SeedInit /\ ParsersNotRun

InitSeed == BootstrapInit /\ SetupNotRun /\ SeedInit /\ ParsersNotRun

SpecSeed == InitSeed /\ [][SeedNext]_vars

SpecPatcher == InitPatcher /\ [][PatcherNext]_vars

InitExtract == BootstrapInit /\ SetupNotRun /\ SeedInit /\ ExtractInit

SpecExtract == InitExtract /\ [][ExtractNext]_vars

InitParseCreate == BootstrapInit /\ SetupNotRun /\ SeedInit /\ ParseCreateInit

SpecParseCreate == InitParseCreate /\ [][ParseCreateNext]_vars

(***************************************************************************)
(* Claims about the schema bootstrap (checked under SpecBootstrap).        *)
(***************************************************************************)

\* The step in which call c is made (the synchronous part of ensureD1Schema).
CallStep(c) == nextCall = c /\ nextCall' = c + 1

\* The call made in this step was given a handle with a prepare function.
ValidCallStep(c) == CallStep(c) /\ callArg'[c] # "unbound"

\* An attempt is in flight from its start until its memoized promise settles.
InFlight(a) == promise[a] = "pending"

\* The statements attempt a has issued, in issue order.
RECURSIVE StmtsOf(_, _)
StmtsOf(a, l) ==
    IF l = <<>> THEN <<>>
    ELSE IF Head(l).attempt = a THEN <<Head(l).stmt>> \o StmtsOf(a, Tail(l))
    ELSE StmtsOf(a, Tail(l))

NoStatementFailed == \A a \in AttemptIds : run[a] # "rejected"

\* C1: at most one schema-creation attempt is in flight at any time, and a
\* valid call that arrives while an attempt is in flight joins that attempt
\* and issues no statement of its own.
C1_SingleFlight ==
    /\ [](Cardinality({a \in AttemptIds : InFlight(a)}) <= 1)
    /\ [][\A c \in CallIds :
            (ValidCallStep(c) /\ bootstrapPromise # 0 /\ InFlight(bootstrapPromise))
            => /\ joined'[c] = bootstrapPromise
               /\ callPc'[c] = "awaiting"
               /\ log' = log
               /\ nextAttempt' = nextAttempt
               /\ bootstrapPromise' = bootstrapPromise]_vars

\* C1 witness: two calls wait on the same attempt while a statement of it is
\* in flight, the second having arrived while the attempt was in flight.
C1_Witness ==
    /\ callPc[1] = "awaiting" /\ callPc[2] = "awaiting"
    /\ joined[1] = 1 /\ joined[2] = 1
    /\ lastSeen = "inflight"
    /\ run[1] = "inflight" /\ cur[1] > 1

\* C2: when no statement fails, the statements issued so far are the first
\* Len(log) statements of the list in declared order, all of them once an
\* attempt has completed; and once an attempt has succeeded no step issues a
\* statement again.
C2_ExactlyOnceInOrder ==
    /\ [](NoStatementFailed =>
            /\ \A k \in 1 .. Len(log) : log[k].stmt = k
            /\ Len(log) <= NumStatements
            /\ (\E a \in AttemptIds : body[a] = "fulfilled")
                  => Len(log) = NumStatements
            /\ \A c \in CallIds : callPc[c] = "returned"
                  => Len(log) = NumStatements)
    /\ [][(\E a \in AttemptIds : body[a] = "fulfilled") => log' = log]_vars

\* C2 witness: every call has returned, the last one having found the
\* bootstrap completed, and the whole list was issued once.
C2_Witness ==
    /\ \A c \in CallIds : callPc[c] = "returned"
    /\ NoStatementFailed
    /\ lastSeen = "completed"
    /\ Len(log) = NumStatements

\* What every attempt satisfies: a rejected attempt is no longer memoized, an
\* attempt issues statements 1, 2, ... in order, and an attempt that succeeds
\* ran the full list and is preceded only by failed attempts (one failure and
\* a clean retry: exactly two attempts).
RetryInvariant ==
    \A a \in AttemptIds :
        /\ promise[a] = "rejected" => bootstrapPromise # a
        /\ StmtsOf(a, log) = [k \in 1 .. cur[a] |-> k]
        /\ body[a] = "fulfilled" =>
              /\ cur[a] = NumStatements
              /\ a = Cardinality({b \in AttemptIds : run[b] = "rejected"}) + 1
              /\ nextAttempt = a + 1

\* A valid call that finds the memo cleared starts a fresh attempt at the
\* first statement of the list.
FreshStart(c) ==
    (ValidCallStep(c) /\ bootstrapPromise = 0) =>
        /\ joined'[c] = nextAttempt
        /\ log' = Append(log, [attempt |-> nextAttempt, stmt |-> 1,
                               handle |-> callArg'[c]])

\* C3 as stated: a failed attempt clears the memo, the next call starts a
\* fresh attempt at the first statement, one failure followed by a clean retry
\* makes exactly two attempts, and no call that starts after a statement of an
\* attempt has failed awaits that attempt.
C3_Original ==
    /\ []RetryInvariant
    /\ [][\A c \in CallIds :
            /\ FreshStart(c)
            /\ ValidCallStep(c) => run[joined'[c]] # "rejected"]_vars

\* C3 amended: as C3, except that the memo is cleared when the failed
\* attempt's rejection handler runs: only a call that starts after the
\* handler has run is sure not to await the failed attempt.
C3_RetryFromScratch ==
    /\ []RetryInvariant
    /\ [][\A c \in CallIds :
            /\ FreshStart(c)
            /\ ValidCallStep(c) => promise[joined'[c]] # "rejected"]_vars

\* C3 witness: attempt 1 failed after its first statement, the next call
\* found the memo cleared, and attempt 2 ran the full list and succeeded.
C3_Witness ==
    /\ promise[1] = "rejected" /\ cur[1] > 1
    /\ promise[2] = "fulfilled"
    /\ lastSeen = "idle"
    /\ \E c \in CallIds : callPc[c] = "threw" /\ joined[c] = 1
    /\ \E c \in CallIds : callPc[c] = "returned" /\ joined[c] = 2
    /\ Len(log) = cur[1] + NumStatements

\* C4: every call that has completed its wait got the outcome of the attempt
\* it waited on: success exactly when that attempt's promise was fulfilled,
\* the failure exactly when it was rejected; so all waiters of one attempt
\* agree.
C4_SharedOutcome ==
    /\ \A c \in CallIds :
        /\ callPc[c] = "returned" => promise[joined[c]] = "fulfilled"
        /\ callPc[c] = "threw" => promise[joined[c]] = "rejected"
    /\ \A c, d \in CallIds :
        (joined[c] = joined[d] /\ joined[c] # 0
            /\ callPc[c] \in {"returned", "threw"}
            /\ callPc[d] \in {"returned", "threw"}) => callPc[c] = callPc[d]

\* C4 witness: the call that triggered an attempt and a call that joined it
\* while it was in flight have both received its failure.
C4_Witness ==
    /\ joined[1] = 1 /\ joined[2] = 1
    /\ callPc[1] = "threw" /\ callPc[2] = "threw"
    /\ nextCall = 3 /\ lastSeen = "inflight"

\* C5: a call whose handle has no prepare function throws at once: it joins
\* nothing, issues no statement and leaves the bootstrap state as it was.
C5_UnavailableHandle ==
    [][\A c \in CallIds :
        (CallStep(c) /\ callArg'[c] = "unbound") =>
            /\ callPc'[c] = "threwUnavailable"
            /\ joined'[c] = 0
            /\ UNCHANGED <<bootstrapPromise, body, promise, cur, run, handleOf,
                           nextAttempt, log>>]_vars

\* C5 witness: the latest call had no usable handle, found the bootstrap
\* completed and threw, after an earlier call had returned.
C5_Witness ==
    /\ nextCall = 3
    /\ callPc[1] = "returned"
    /\ callPc[2] = "threwUnavailable"
    /\ lastSeen = "completed"
    /\ bootstrapPromise = 1 /\ promise[1] = "fulfilled"

(***************************************************************************)
(* Claims about the provisioning run (checked under SpecSetup).            *)
(***************************************************************************)

\* The step of main a position belongs to (7: the final write of .env).
StepOf(p) ==
    IF p \in {"s1_version", "s1_auth", "s1_confirm", "s1_reauth"} THEN 1
    ELSE IF p \in {"s2_version", "s2_whoami", "s2_confirm", "s2_select",
                   "s2_label", "s2_manualId", "s2_manualLabel"} THEN 2
    ELSE IF p \in {"s3_hasExisting", "s3_desiredName", "s3_create",
                   "s3_existingName", "s3_existingId", "s3_binding",
                   "s3_token", "s3_configRead", "s3_configWrite"} THEN 3
    ELSE IF p = "s4_secretKey" THEN 4
    ELSE IF p = "s5_listen" THEN 5
    ELSE IF p = "s6_generate" THEN 6
    ELSE IF p = "s7_writeEnv" THEN 7
    ELSE 0

AllSixSteps == <<1, 2, 3, 4, 5, 6>>

\* C6: the steps start in the order 1, 2, ..., 6, each from a position of the
\* step before it and never in a step that ends fatally; the run is always
\* inside the step started last; and once the process has exited nothing
\* further happens: no step, prompt, command or file write.
C6_StepsInOrder ==
    /\ [](/\ steps = [k \in 1 .. Len(steps) |-> k]
          /\ Len(steps) <= 6
          /\ exitCode = "none" =>
                \/ StepOf(spc) = Len(steps)
                \/ spc = "s7_writeEnv" /\ steps = AllSixSteps
          /\ exitCode # "none" => ~ENABLED SetupNext)
    /\ [][/\ steps' # steps =>
                /\ steps' = Append(steps, Len(steps) + 1)
                /\ StepOf(spc) = Len(steps)
                /\ StepOf(spc') = Len(steps) + 1
                /\ exitCode = "none" /\ exitCode' = "none"
          /\ exitCode # "none" => UNCHANGED vars]_vars

\* C6 witness: a run that went through all six steps and ended with status 0.
C6_Witness ==
    /\ exitCode = "0"
    /\ steps = AllSixSteps
    /\ envFile = "written"

\* C7: .env is written at most once, and only when all six steps have
\* completed and everything has been collected; a run that became fatal
\* before the write leaves .env untouched.
C7_EnvWrittenLast ==
    /\ envWrites <= 1
    /\ envFile # "untouched" =>
          /\ steps = AllSixSteps
          /\ spc = "exited" /\ fatalAt \in {"none", "s7_writeEnv"}
          /\ webhookSecret \in WhsecTokens
          /\ authSecret \in RandomSecrets
    /\ envFile = "written" => envWrites = 1 /\ envVars = CollectedEnvVars
    /\ (exitCode = "1" /\ fatalAt # "s7_writeEnv") =>
          envFile = "untouched" /\ envWrites = 0 /\ envVars = NoEnvVars
    /\ exitCode = "none" => envFile = "untouched" /\ envWrites = 0

\* C7 witness: a run that became fatal in step 5, after the config file was
\* patched, and left .env untouched.
C7_Witness ==
    /\ exitCode = "1"
    /\ fatalAt = "s5_listen"
    /\ configWrites = 1
    /\ envFile = "untouched"

\* C8 as stated: the config file is patched only after all six steps have
\* completed, right before .env is written, so that a run fatal in step 4, 5
\* or 6 leaves it unmodified.
C8_ConfigPatchedLast ==
    /\ configWrites > 0 => steps = AllSixSteps /\ spc \in {"s7_writeEnv", "exited"}
    /\ (exitCode = "1" /\ StepOf(fatalAt) \in {4, 5, 6}) => configWrites = 0

\* The latest outcome of `wrangler whoami` in the listing loop.
LastListing == listings[Len(listings)]

\* C9 as stated: whenever the first listing yields no accounts, whether the
\* command succeeded or failed, the operator is asked to confirm and the
\* listing is tried again; a second listing without accounts exits with 1.
C9_Original ==
    /\ (Len(listings) = 1 /\ listings[1].n = 0) =>
          \/ spc \in {"s2_confirm", "s2_whoami"}
          \/ exitCode = "1" /\ fatalAt = "s2_confirm"
    /\ (Len(listings) = 2 /\ listings[2].n = 0) => exitCode = "1"

\* C9 amended: whenever the first listing fails and yields no accounts, the
\* operator is asked to confirm, and on confirmation the listing is tried a
\* second time (declining exits with 1); if the second listing also fails
\* and yields no accounts the run exits with 1.  A listing that succeeds
\* without accounts is not retried: it leads to manual entry.  There is no
\* third listing, and a second one only after a failed first one.
C9_RetryOnFailedListing ==
    /\ Len(listings) <= 2
    /\ (Len(listings) = 1 /\ ~listings[1].ok /\ listings[1].n = 0) =>
          \/ spc \in {"s2_confirm", "s2_whoami"}
          \/ exitCode = "1" /\ fatalAt = "s2_confirm"
    /\ Len(listings) = 2 => ~listings[1].ok /\ listings[1].n = 0
    /\ (Len(listings) = 2 /\ ~listings[2].ok /\ listings[2].n = 0) =>
          exitCode = "1" /\ fatalAt = "s2_whoami"
    /\ (Len(listings) >= 1 /\ LastListing.ok /\ LastListing.n = 0) =>
          exitCode = "none" /\ spc \in {"s2_manualId", "s2_manualLabel"}

\* C9 witness: both listings failed without accounts and the run exited
\* with status 1.
C9_Witness ==
    /\ Len(listings) = 2
    /\ ~listings[1].ok /\ listings[1].n = 0
    /\ ~listings[2].ok /\ listings[2].n = 0
    /\ exitCode = "1"

\* Manual entry: from the label prompt of promptForAccountId the run goes on
\* to step 3 with the id the operator typed, a 32-hex string.
ManualEntryContinues ==
    (spc = "s2_manualLabel" /\ spc' # spc) =>
        /\ spc' = "s3_hasExisting"
        /\ exitCode' = "none"
        /\ steps' = Append(steps, 3)
        /\ IsHex32(enteredId)
        /\ account'.id = enteredId

\* C10 as stated: whenever the listing attempts of step 2 are over and no
\* account was recovered, the run does not terminate but goes to manual
\* entry and continues to step 3 with the account entered.
C10_Original ==
    /\ [](/\ Len(listings) >= 1
          /\ LastListing.n = 0
          /\ LastListing.ok \/ Len(listings) = 2
          => exitCode = "none" /\ spc \in {"s2_manualId", "s2_manualLabel"})
    /\ [][ManualEntryContinues]_vars

\* C10 amended: whenever a listing command of step 2 succeeds but no account
\* is recovered from its output, the run does not terminate but goes to
\* manual entry of an account id and label and continues to step 3 with the
\* account entered.  (Two failed listings without accounts exit with 1.)
C10_ManualFallback ==
    /\ [](/\ Len(listings) >= 1
          /\ LastListing.n = 0
          /\ LastListing.ok
          => exitCode = "none" /\ spc \in {"s2_manualId", "s2_manualLabel"})
    /\ [][ManualEntryContinues]_vars

\* C10 witness: the second listing succeeded without accounts and the
\* operator has typed an account id at the manual prompt.
C10_Witness ==
    /\ Len(listings) = 2
    /\ LastListing.ok /\ LastListing.n = 0
    /\ spc = "s2_manualLabel"
    /\ IsHex32(enteredId)

\* The label prompt of a manual override hands on the id the operator typed.
OverrideKeepsId ==
    (spc = "s2_label" /\ spc' # spc) =>
        /\ spc' = "s3_hasExisting"
        /\ IsHex32(enteredId)
        /\ account'.id = enteredId

\* C11 as stated: at the selection prompt with n >= 1 detected accounts,
\* every answer of exactly 32 hexadecimal characters, also one that begins
\* with decimal digits, is a manual override whose account id is the answer;
\* the empty answer selects the first detected account and a number k with
\* 1 <= k <= n the k-th.
C11_HexIdOverrides ==
    [][/\ spc = "s2_select" =>
            LET answer == selectAnswer'.text
                detected == detectedAccounts.list
            IN /\ Len(detected) >= 1
               /\ selectAnswer'.given
               /\ IsHex32(answer) =>
                     /\ spc' = "s2_label"
                     /\ enteredId' = answer
                     /\ exitCode' = "none"
               /\ answer = <<>> =>
                     /\ account' = detected[1]
                     /\ spc' = "s3_hasExisting"
               /\ \A k \in 1 .. Len(detected) :
                     answer = <<Digits[k + 1]>> =>
                        /\ account' = detected[k]
                        /\ spc' = "s3_hasExisting"
       /\ OverrideKeepsId]_vars

\* The probes (`stripe config --list`) recorded in a log of step 1.
Probes(l) == SelectSeq(l, LAMBDA e : e \in {"probeOk", "probeFailed"})

\* C12: in step 1 the authentication probe is run at most twice; the second
\* probe is run only after the first one failed and the operator answered
\* yes; step 2 starts only if one of the probes succeeded; and the run exits
\* with status 1 if the operator declines or the second probe also fails.
C12_AuthProbedAtMostTwice ==
    /\ Len(Probes(authLog)) <= 2
    /\ authLog \in {<<>>, <<"probeOk">>, <<"probeFailed">>,
                    <<"probeFailed", "no">>, <<"probeFailed", "yes">>,
                    <<"probeFailed", "yes", "probeOk">>,
                    <<"probeFailed", "yes", "probeFailed">>}
    /\ Len(steps) >= 2 <=>
          (authLog # <<>> /\ authLog[Len(authLog)] = "probeOk")
    /\ authLog = <<"probeFailed", "no">> =>
          exitCode = "1" /\ fatalAt = "s1_confirm" /\ steps = <<1>>
    /\ authLog = <<"probeFailed", "yes", "probeFailed">> =>
          exitCode = "1" /\ fatalAt = "s1_reauth" /\ steps = <<1>>
    /\ authLog = <<"probeFailed">> => spc = "s1_confirm"
    /\ authLog = <<"probeFailed", "yes">> => spc = "s1_reauth"

\* C12 witness: the first probe failed, the operator confirmed, the second
\* probe succeeded and step 2 has started.
C12_Witness ==
    /\ authLog = <<"probeFailed", "yes", "probeOk">>
    /\ Len(steps) >= 2
    /\ exitCode = "none"

\* The positions of step 3 after the database id and name are resolved.
DatabaseResolved ==
    {"s3_binding", "s3_token", "s3_configRead", "s3_configWrite"}

CreateFellBack == createResult \in {"failed", "unparsed"}

\* C13: in step 3, when `wrangler d1 create` fails or its output cannot be
\* parsed, the run is not terminated: it enters manual entry of name and id
\* with the desired name as the default, and goes on to the binding-name
\* prompt once a non-empty name and a UUID-shaped id are supplied.
C13_CreateFailureFallsBack ==
    /\ [](/\ StepOf(fatalAt) # 3
          /\ CreateFellBack =>
                /\ exitCode = "none"
                /\ spc \in {"s3_existingName", "s3_existingId"}
                        \cup DatabaseResolved
                /\ desiredName # ""
                /\ spc # "s3_existingName" =>
                        manualName \in {desiredName} \cup ExistingNameAnswers
                /\ spc \in DatabaseResolved =>
                        /\ database.name = manualName
                        /\ manualName # ""
                        /\ IsUuid(database.id))
    /\ [][/\ (spc = "s3_create" /\ createResult' \in {"failed", "unparsed"}) =>
                /\ spc' = "s3_existingName"
                /\ desiredName' = desiredName
                /\ exitCode' = "none"
          /\ (CreateFellBack /\ spc = "s3_existingName" /\ spc' # spc) =>
                /\ spc' = "s3_existingId"
                /\ manualName' # ""
          /\ (CreateFellBack /\ spc = "s3_existingId" /\ spc' # spc) =>
                /\ spc' = "s3_binding"
                /\ exitCode' = "none"
                /\ IsUuid(database'.id)]_vars

\* C13 witness: the creation command failed, the operator accepted the
\* desired name as the default and typed a UUID, and the run is at the
\* binding-name prompt.
C13_Witness ==
    /\ createResult = "failed"
    /\ spc = "s3_binding"
    /\ manualName = desiredName
    /\ desiredName \notin ExistingNameAnswers
    /\ database = [id |-> validUuid, name |-> desiredName]

\* C14 as stated: every database id and name that step 3 hands to the config
\* patcher and to .env is well-formed, the id of UUID shape and the name
\* non-empty, whether parsed from the output of the creation command (by
\* any stage of the parser) or entered by hand.
C14_DatabaseWellFormed ==
    /\ spc \in DatabaseResolved =>
          IsUuid(database.id) /\ database.name # ""
    /\ configWrites > 0 =>
          /\ configFile["database_id"] # Existing("database_id") =>
                IsUuid(configFile["database_id"])
          /\ configFile["database_name"] # ""
    /\ envFile = "written" =>
          /\ IsUuid(envVars.CLOUDFLARE_D1_DATABASE_ID)
          /\ envVars.CLOUDFLARE_D1_DATABASE_NAME # ""

\* The output holds a token whsec_ followed by alphanumerics.
HasToken(out) == \E i \in 1 .. Len(out) : out[i] \in WhsecTokens

\* t is the first such token of the output.
IsFirstToken(t, out) ==
    \E i \in 1 .. Len(out) :
        /\ out[i] = t
        /\ t \in WhsecTokens
        /\ \A j \in 1 .. i - 1 : out[j] \notin WhsecTokens

\* C15: if `stripe listen --print-secret` fails, or its output holds no
\* token whsec_ followed by alphanumerics, the run exits with status 1 and
\* .env is not written; otherwise the webhook secret, also the one written
\* to .env, is the first such token of the output.
C15_WebhookSecretOrFatal ==
    /\ ~listenResult.run => webhookSecret = "" /\ Len(steps) <= 5
    /\ (listenResult.run /\ (~listenResult.ok \/ ~HasToken(listenResult.stdout))) =>
          /\ exitCode = "1"
          /\ fatalAt = "s5_listen"
          /\ steps = <<1, 2, 3, 4, 5>>
          /\ envFile = "untouched"
          /\ envWrites = 0
          /\ envVars = NoEnvVars
    /\ (listenResult.run /\ listenResult.ok /\ HasToken(listenResult.stdout)) =>
          /\ IsFirstToken(webhookSecret, listenResult.stdout)
          /\ fatalAt # "s5_listen"
          /\ Len(steps) = 6
          /\ envFile = "written" =>
                envVars.STRIPE_WEBHOOK_SECRET = webhookSecret

\* C15 witness: the output held two tokens and .env was written with the
\* first of them.
C15_Witness ==
    /\ listenResult.ok
    /\ listenResult.stdout = <<"Ready", "whsec_1", "whsec_2">>
    /\ envFile = "written"
    /\ envVars.STRIPE_WEBHOOK_SECRET = "whsec_1"

\* C16: if `stripe --version` (step 1) or `pnpm wrangler --version` (step 2)
\* fails, the run exits with status 1 without running that tool's
\* authentication probe, without any further prompt or command, and without
\* writing wrangler.jsonc or .env.
C16_MissingToolIsFatal ==
    /\ fatalAt \in {"s1_version", "s2_version"} =>
          /\ exitCode = "1"
          /\ spc = "exited"
          /\ ~ENABLED SetupNext
          /\ configWrites = 0
          /\ patchLog = NoPatch
          /\ envFile = "untouched"
          /\ envWrites = 0
          /\ envVars = NoEnvVars
          /\ selectAnswer = NoAnswer
          /\ account = NoAccount
          /\ database = NoDatabase
          /\ listenResult = NotListened
    /\ fatalAt = "s1_version" => authLog = <<>> /\ steps = <<1>>
    /\ fatalAt = "s2_version" => listings = <<>> /\ steps = <<1, 2>>
    /\ (spc = "s1_auth" \/ authLog # <<>>) => fatalAt # "s1_version"
    /\ (spc = "s2_whoami" \/ listings # <<>>) => fatalAt # "s2_version"

\* C16 witness: Tool A passed both of its probes, and the version probe of
\* Tool B failed.
C16_Witness ==
    /\ fatalAt = "s2_version"
    /\ authLog = <<"probeOk">>
    /\ exitCode = "1"
    /\ listings = <<>>

(***************************************************************************)
(* Claims about the config patcher (checked under SpecPatcher).            *)
(***************************************************************************)

\* The placeholders a content holds.
Present(content) == {p \in Placeholders : content[p] = Token(p)}

\* The calls of updateWranglerConfig that met no I/O failure.
CleanPatches == {i \in 1 .. Len(patchLog) : patchLog[i].report # "warning"}

\* C17: for every subset of the three placeholders present in the file, the
\* patcher replaces exactly the placeholders present, each with its resolved
\* value, and leaves the rest of the file as it was; it writes the file if
\* and only if it replaced a placeholder; with none present it replaces
\* nothing, writes nothing and reports the file as already configured.
C17_PatchesExactlyPresent ==
    /\ \A i \in CleanPatches :
          LET e == patchLog[i] IN
          /\ \A p \in Placeholders :
                e.after[p] = IF p \in Present(e.before) THEN ResolvedValue(p)
                             ELSE e.before[p]
          /\ e.wrote <=> Present(e.before) # {}
          /\ e.report = IF Present(e.before) = {} THEN "alreadyConfigured"
                        ELSE "updated"
          /\ Present(e.before) = {} => e.after = e.before
    /\ configWrites = Cardinality({i \in CleanPatches : patchLog[i].wrote})
    /\ patchLog # NoPatch => configFile = patchLog[Len(patchLog)].after

\* C17 witness: the file held the database_name placeholder only, and the
\* patcher replaced just that one and wrote the file.
C17_Witness ==
    /\ patchLog # NoPatch
    /\ Present(patchLog[1].before) = {"database_name"}
    /\ patchLog[1].report = "updated"
    /\ patchLog[1].after = [patchLog[1].before EXCEPT
                                !["database_name"] = database.name]
    /\ database.name # Token("database_name")
    /\ configWrites = 1

\* C18 as stated: the patcher is idempotent for any resolved binding name,
\* database name and database id: applied a second time to the file the
\* first application produced, it leaves the file unchanged and performs no
\* write, skipping the file as already patched.
C18_PatcherIdempotent ==
    \A i \in CleanPatches :
        (i > 1 /\ i - 1 \in CleanPatches) =>
            /\ patchLog[i].before = patchLog[i - 1].after
            /\ patchLog[i].after = patchLog[i].before
            /\ ~patchLog[i].wrote
            /\ patchLog[i].report = "alreadyConfigured"

(***************************************************************************)
(* Claims about the setup script, continued (checked under SpecSetup).     *)
(***************************************************************************)

\* A read or a write of wrangler.jsonc failed in this run.
PatchFailed == \E i \in 1 .. Len(patchLog) : patchLog[i].report = "warning"

\* C19: a failure to read or to write wrangler.jsonc while patching never
\* terminates the run: it is reported as a warning, the run goes on with the
\* remaining steps, and .env is still written when those steps succeed.
C19_PatchFailureIsWarning ==
    /\ [](/\ StepOf(fatalAt) # 3
          /\ Len(patchLog) <= 1
          /\ PatchFailed =>
                /\ Len(steps) >= 4
                /\ patchLog[1].after = patchLog[1].before
                /\ configWrites = 0
                /\ exitCode = "none" => ENABLED SetupNext
                /\ exitCode = "1" => fatalAt \in {"s5_listen", "s7_writeEnv"}
                /\ exitCode = "0" =>
                      /\ steps = AllSixSteps
                      /\ envFile = "written"
                      /\ envVars = CollectedEnvVars)
    /\ [][(spc \in {"s3_configRead", "s3_configWrite"} /\ spc' # spc) =>
             /\ exitCode' = "none"
             /\ spc' \in {"s3_configWrite", "s4_secretKey"}
             /\ spc' = "s4_secretKey" =>
                   /\ Len(patchLog') = 1
                   /\ steps' = Append(steps, 4)]_vars

\* C19 witness: the write of wrangler.jsonc failed, and the run ended with
\* status 0 and .env written.
C19_Witness ==
    /\ patchLog # NoPatch
    /\ patchLog[1].report = "warning"
    /\ patchLog[1].wrote
    /\ exitCode = "0"
    /\ envFile = "written"

(***************************************************************************)
(* Claims about the seed script (checked under SpecSeed).                  *)
(***************************************************************************)

\* Every seed run so far was complete: it ended without error.
AllRunsComplete == \A i \in 1 .. Len(seedRuns) : seedRuns[i].code = "0"

\* C20: after any number n >= 1 of complete, sequential seed runs that
\* started from an empty store, the store holds exactly one default user,
\* exactly one default team and exactly one membership, which links the two
\* (the first run inserts each, the later runs insert none of them), and 2n
\* billing products have been created.
C20_SeedIdempotentButProducts ==
    (seedPc = "idle" /\ Len(seedRuns) >= 1 /\ AllRunsComplete) =>
        /\ Cardinality(DefaultUsers) = 1
        /\ Cardinality(DefaultTeams) = 1
        /\ Len(store.members) = 1
        /\ \E u \in DefaultUsers, t \in DefaultTeams :
              /\ store.members[1].userId = store.users[u].id
              /\ store.members[1].teamId = store.teams[t].id
        /\ store.products = 2 * Len(seedRuns)
        /\ \A i \in 1 .. Len(seedRuns) :
              LET n == IF i = 1 THEN 1 ELSE 0 IN
              /\ seedRuns[i].inserted.users = n
              /\ seedRuns[i].inserted.teams = n
              /\ seedRuns[i].inserted.members = n
              /\ seedRuns[i].inserted.products = 2

\* C20 witness: two complete runs, the second of which inserted no row and
\* created two more products.
C20_Witness ==
    /\ seedPc = "idle"
    /\ Len(seedRuns) = 2
    /\ AllRunsComplete
    /\ store.products = 4
    /\ seedRuns[2].inserted = [NoInserts EXCEPT !.products = 2]
\* The positions of a seed run in program order.
SeedOrder ==
    <<"hash", "statement", "selectUser", "insertUser", "reselectUser",
      "selectTeam", "insertTeam", "reselectTeam", "selectMember",
      "insertMember", "product1", "price1", "product2", "price2">>

Pos(p) == CHOOSE i \in 1 .. Len(SeedOrder) : SeedOrder[i] = p

\* The runs before the last one were all interrupted before the
\* billing-product step, and the last one ran to completion.
InterruptedThenComplete ==
    /\ seedPc = "idle"
    /\ Len(seedRuns) >= 1
    /\ seedRuns[Len(seedRuns)].code = "0"
    /\ \A i \in 1 .. Len(seedRuns) - 1 :
          /\ seedRuns[i].cause = "signal"
          /\ seedRuns[i].at \notin BillingStep

\* C21: a seed run interrupted at any point before the billing-product step
\* (after any schema statement, lookup or insert, whether or not the request in
\* flight was applied) is re-runnable: the complete run that follows ends with
\* exactly one default user, exactly one default team, exactly one membership,
\* which links the two, and exactly two billing products.
C21_InterruptedSeedIsRerunnable ==
    InterruptedThenComplete =>
        /\ Cardinality(DefaultUsers) = 1
        /\ Len(store.users) = 1
        /\ Cardinality(DefaultTeams) = 1
        /\ Len(store.teams) = 1
        /\ Len(store.members) = 1
        /\ \E u \in DefaultUsers, t \in DefaultTeams :
              /\ store.members[1].userId = store.users[u].id
              /\ store.members[1].teamId = store.teams[t].id
        /\ store.products = 2
        /\ store.prices = 2

\* C21 witness: the first run was killed while its team insert was in flight,
\* the insert was applied all the same, and the second run completed without
\* inserting a team.
C21_Witness ==
    /\ InterruptedThenComplete
    /\ Len(seedRuns) = 2
    /\ seedRuns[1].at = "insertTeam"
    /\ seedRuns[1].inserted.teams = 1
    /\ seedRuns[2].inserted = [NoInserts EXCEPT !.members = 1, !.products = 2]

\* A run record shows no insert and no product creation that lies after the
\* position at which the run ended.
StoppedAt(r) ==
    /\ Pos(r.at) < Pos("insertUser") => r.inserted.users = 0
    /\ Pos(r.at) < Pos("insertTeam") => r.inserted.teams = 0
    /\ Pos(r.at) < Pos("insertMember") => r.inserted.members = 0
    /\ Pos(r.at) < Pos("product1") => r.inserted.products = 0
    /\ Pos(r.at) < Pos("product2") => r.inserted.products <= 1
    /\ (r.statement > 0) <=> (r.at = "statement")

\* C22: when a remote query of a seed run fails (a schema statement, a lookup
\* or an insert), the run ends at that step: the process exits with status 1
\* and never 0, nothing that lies after the failed step has been executed, and
\* the only change to the store is the failed request itself, if the remote
\* side applied it.
C22_QueryFailureAborts ==
    [][(Len(seedRuns') = Len(seedRuns) + 1
            /\ seedRuns'[Len(seedRuns')].cause = "query") =>
        LET r == seedRuns'[Len(seedRuns')] IN
        /\ r.code = "1"
        /\ r.at = seedPc
        /\ seedPc' = "idle"
        /\ StoppedAt(r)
        /\ store' \in {store, AppliedTo(store, seedPc)}
        /\ \A i \in 1 .. Len(seedRuns) : seedRuns'[i] = seedRuns[i]]_vars

\* C22 witness: a run whose team insert failed ended there with status 1,
\* after it inserted the user and before any membership or product.
C22_Witness ==
    /\ seedPc = "idle"
    /\ Len(seedRuns) = 1
    /\ seedRuns[1].cause = "query"
    /\ seedRuns[1].at = "insertTeam"
    /\ seedRuns[1].code = "1"
    /\ seedRuns[1].inserted = [NoInserts EXCEPT !.users = 1]
    /\ store.products = 0
\* An invalid answer to a format-validated prompt can be given, and giving it
\* changes nothing: the same question is asked again.
InvalidAnswerRepeats ==
    /\ spc = "s2_manualId" =>
          \A a \in AccountIdAnswers : ~IsHex32(a) =>
              /\ ENABLED ManualAccountIdAnswer(a)
              /\ ~ENABLED (ManualAccountIdAnswer(a) /\ vars' # vars)
    /\ spc = "s3_desiredName" =>
          /\ ENABLED DesiredNameAnswer("")
          /\ ~ENABLED (DesiredNameAnswer("") /\ vars' # vars)
    /\ (spc = "s3_existingName" /\ desiredName = "") =>
          /\ ENABLED ExistingNameAnswer("")
          /\ ~ENABLED (ExistingNameAnswer("") /\ vars' # vars)
    /\ spc = "s3_existingId" =>
          \A a \in DatabaseIdAnswers : ~IsUuid(a) =>
              /\ ENABLED ExistingIdAnswer(a)
              /\ ~ENABLED (ExistingIdAnswer(a) /\ vars' # vars)

\* A step that leaves a format-validated prompt carries a valid value.
LeavesPromptValid ==
    /\ (spc = "s2_manualId" /\ spc' # spc) =>
          IsHex32(enteredId') /\ spc' = "s2_manualLabel"
    /\ (spc = "s2_manualLabel" /\ spc' # spc) =>
          IsHex32(account'.id) /\ account'.id = enteredId
    /\ (spc = "s3_desiredName" /\ spc' # spc) =>
          desiredName' # "" /\ spc' = "s3_create"
    /\ (spc = "s3_existingName" /\ spc' # spc) =>
          manualName' # "" /\ spc' = "s3_existingId"
    /\ (spc = "s3_existingId" /\ spc' # spc) =>
          /\ IsUuid(database'.id)
          /\ database'.name # ""
          /\ database'.name = manualName
    /\ (spc \in {"s2_manualId", "s3_desiredName", "s3_existingName",
                 "s3_existingId"}) =>
          UNCHANGED <<fileVars, authLog, listings, createResult, listenResult>>

\* C23: no format-validated prompt lets the workflow advance on invalid
\* input: the manual account entry yields only an id of 32 hexadecimal
\* characters, the manual database entry only a non-empty name and a
\* UUID-shaped id, the prompt for the new database's name only a non-empty
\* name; an invalid answer leads to the same question with nothing run and
\* nothing written in between, however often it is given.
C23_PromptsRejectInvalid ==
    []InvalidAnswerRepeats /\ [][LeavesPromptValid]_vars

\* C23 witness: the account was entered by hand, the creation of "mydb"
\* failed, and the manual database entry took the default name and a UUID.
C23_Witness ==
    /\ spc = "s3_binding"
    /\ IsHex32(account.id)
    /\ createResult = "failed"
    /\ desiredName = "mydb"
    /\ manualName = "mydb"
    /\ database = [id |-> validUuid, name |-> "mydb"]
\* The entries of a text in order of discovery: those of the payload, then
\* one per line, each with the id as the text spells it.
RECURSIVE LineCandidates(_)
LineCandidates(lines) ==
    IF lines = <<>> THEN <<>>
    ELSE LET line == Head(lines)
             here == IF line.shape = "row" /\ line.name = headerName THEN <<>>
                     ELSE IF line.shape = "row" /\ trim(line.name) = <<>>
                     THEN <<>>
                     ELSE IF line.shape = "inline" /\ trim(line.name) = <<>>
                     THEN <<>>
                     ELSE <<Entry(line.id, line.name)>>
         IN here \o LineCandidates(Tail(lines))

TextCandidates(text) ==
    (IF text.payload.present
     THEN text.payload.account \o text.payload.accounts \o text.payload.result
     ELSE <<>>) \o LineCandidates(text.lines)

HasValidId(entry) == entry.hasId /\ IsHex32(trim(entry.id))

RECURSIVE FirstSeen(_, _)
FirstSeen(kept, entries) ==
    IF entries = <<>> THEN kept
    ELSE LET e == Head(entries) IN
         IF \E i \in 1 .. Len(kept) : kept[i].id = trim(e.id)
         THEN FirstSeen(kept, Tail(entries))
         ELSE FirstSeen(Append(kept, [id |-> trim(e.id),
                                      name |-> cleanName(e.name)]),
                        Tail(entries))

\* C24: for every text, extractAccounts returns a list in which every id is
\* exactly 32 hexadecimal characters, no two entries have the same id, and the
\* entries are those of the text's candidates whose id is 32 hexadecimal
\* characters, in order of first discovery and each with the name seen first;
\* a candidate whose id is 31 or 33 hexadecimal characters long contributes
\* no entry.
C24_ExtractAccountsContract ==
    parsePc = "done" =>
        /\ \A i \in 1 .. Len(parseOutput) : IsHex32(parseOutput[i].id)
        /\ \A i, j \in 1 .. Len(parseOutput) :
              parseOutput[i].id = parseOutput[j].id => i = j
        /\ parseOutput =
              FirstSeen(<<>>, SelectSeq(TextCandidates(parseInput), HasValidId))
\* The payload of the text holds an id: one of the id keys is present and
\* the first of them that is present is not empty.
PayloadHasId(text) ==
    /\ text.json.present
    /\ PayloadId(text.json).has
    /\ PayloadId(text.json).val # <<>>

NameOr(found, fallbackName) ==
    IF found.has /\ found.val # "" THEN found.val ELSE fallbackName

\* C25: parseD1CreateResult applies its three stages in priority order and
\* the first that finds an id determines the result: the id of a structured
\* payload wins over a quoted database_id field, which wins over a bare
\* UUID-shaped substring; the name is the one found by that stage, the
\* fallback name when it finds none; the result is null exactly when no stage
\* finds an id.
C25_ParseCreatePriority ==
    parsePc = "done" =>
        LET text == parseInput
            fallbackName == parseInput.fallbackName
            payloadName ==
                IF PayloadOf(text.json).name.has
                   \/ PayloadOf(text.json).database_name.has
                   \/ PayloadOf(text.json).databaseName.has
                THEN PayloadName(text.json, fallbackName) ELSE AbsentName
        IN /\ PayloadHasId(text) =>
                parseOutput = [found |-> TRUE, id |-> PayloadId(text.json).val,
                               name |-> NameOr(payloadName, fallbackName)]
           /\ (~PayloadHasId(text) /\ snippetIdMatch(text).has) =>
                parseOutput = [found |-> TRUE, id |-> snippetIdMatch(text).val,
                               name |-> NameOr(snippetNameMatch(text),
                                               fallbackName)]
           /\ (~PayloadHasId(text) /\ ~snippetIdMatch(text).has
                    /\ uuidMatch(text).has) =>
                parseOutput = [found |-> TRUE, id |-> uuidMatch(text).val,
                               name |-> NameOr(nameMatch(text), fallbackName)]
           /\ ~parseOutput.found <=>
                (~PayloadHasId(text) /\ ~snippetIdMatch(text).has
                    /\ ~uuidMatch(text).has)
\* The step issues a statement.
Issues == Len(log') = Len(log) + 1

\* The statement the step issues.
Issued == log'[Len(log')]

\* C26: within an attempt the statements run one at a time: statement i+1 is
\* issued only when the run of statement i has completed successfully, so the
\* statement issued last is the only one of the attempt that can be in flight;
\* once a statement of the attempt has failed, no further statement of that
\* attempt is issued and the attempt ends rejected at that statement.
C26_StatementsSequential ==
    /\ [][/\ Issues =>
                /\ cur[Issued.attempt] = Issued.stmt - 1
                /\ cur'[Issued.attempt] = Issued.stmt
                /\ run'[Issued.attempt] = "inflight"
                /\ IF Issued.stmt = 1 THEN body[Issued.attempt] = "unborn"
                   ELSE run[Issued.attempt] = "resolved"
          /\ \A a \in AttemptIds :
                run[a] = "rejected" =>
                    /\ Issues => Issued.attempt # a
                    /\ cur'[a] = cur[a]
                    /\ run'[a] = "rejected"
                    /\ body'[a] \in {body[a], "rejected"}]_vars
    /\ [](\A a \in AttemptIds :
            /\ body[a] = "rejected" => run[a] = "rejected"
            /\ body[a] = "fulfilled" => cur[a] = NumStatements
            /\ run[a] = "inflight" => body[a] = "running" /\ cur[a] >= 1)

\* C26 witness: the first attempt ended at its third statement, which failed,
\* and the second attempt is at its second statement.
C26_Witness ==
    /\ body[1] = "rejected"
    /\ run[1] = "rejected"
    /\ StmtsOf(1, log) = <<1, 2, 3>>
    /\ cur[2] = 2
    /\ run[2] = "inflight"
\* The call that started attempt a: the first one that awaits it.
Starter(a) == CHOOSE c \in CallIds :
    joined[c] = a /\ \A d \in CallIds : joined[d] = a => c <= d

\* C28: the bootstrap state is shared by all handles: every statement of an
\* attempt runs on the handle of the call that started the attempt; a call
\* that brings a different valid handle while an attempt is in flight, or
\* once it has succeeded, runs no statement (none on its own handle), awaits
\* that attempt and completes with its outcome.
C28_SharedAcrossHandles ==
    /\ [](/\ \A k \in 1 .. Len(log) :
                /\ log[k].handle = handleOf[log[k].attempt]
                /\ log[k].handle = callArg[Starter(log[k].attempt)]
          /\ \A c \in CallIds :
                /\ callPc[c] = "returned" => promise[joined[c]] = "fulfilled"
                /\ callPc[c] = "threw" => promise[joined[c]] = "rejected")
    /\ [][\A c \in CallIds :
            (ValidCallStep(c) /\ bootstrapPromise # 0
                /\ callArg'[c] # handleOf[bootstrapPromise]) =>
                /\ log' = log
                /\ joined'[c] = bootstrapPromise
                /\ callPc'[c] = "awaiting"
                /\ UNCHANGED <<bootstrapPromise, handleOf, nextAttempt>>]_vars

\* C28 witness: the first call started the attempt with handle A, the second
\* came with handle B after the attempt had succeeded; both returned and all
\* eight statements ran on A.
C28_Witness ==
    /\ callArg[1] = "A" /\ callArg[2] = "B"
    /\ joined[1] = 1 /\ joined[2] = 1
    /\ lastSeen = "completed"
    /\ callPc[1] = "returned" /\ callPc[2] = "returned"
    /\ Len(log) = NumStatements
    /\ \A k \in 1 .. Len(log) : log[k].handle = "A"
\* C27: provided every statement run eventually settles, every call of
\* ensureD1Schema that awaits an attempt eventually completes, by returning or
\* by throwing: also a call that joined an attempt which fails later, and a
\* call that arrived after a statement failed and before the memo was reset.
C27_EveryCallCompletes ==
    \A c \in CallIds :
        (callPc[c] = "awaiting") ~> (callPc[c] \in {"returned", "threw"})

\* C27 witness: the second call arrived while the failed first attempt was
\* still memoized, joined it, and both calls have thrown.
C27_Witness ==
    /\ nextCall = 3
    /\ lastSeen = "failing"
    /\ joined[1] = 1 /\ joined[2] = 1
    /\ callPc[1] = "threw" /\ callPc[2] = "threw"
====
